---- MODULE Spec2Model ----
(***************************************************************************)
(* Model of the FlavorFit food validator (food_validator.py), of the       *)
(* meal-plan, food-recommendations, food-list, allergen-filter and         *)
(* compare-foods endpoints of the Smart Digital Food Menu API              *)
(* (food_menu_api.py) and of its database access (DatabaseConfig and       *)
(* DatabaseOperations of db_config/ and database_config.py).               *)
(*                                                                         *)
(* Units.  The catalog holds fiber_g and fat_g with one decimal place      *)
(* (rice: 0.3), so these two fields are kept in tenths of a gram and the   *)
(* integer thresholds of the rule table are multiplied by ten where they   *)
(* are compared.  Prices are kept in cents.  Every other field is the      *)
(* integer of the source.                                                  *)
(***************************************************************************)
EXTENDS Integers, Sequences, FiniteSets, TLC

VARIABLES database, rules, call, ret, food_recommendations, food_allergens,
          lookups, threads, frames, environment, db_ops, session

vars == <<database, rules, call, ret, food_recommendations, food_allergens,
          lookups, threads, frames, environment, db_ops, session>>

\* the concurrent callers of the validator, of which the sequential caller
\* and the API handlers use none
callers == <<threads, frames>>

\* the process's database access: its environment, the DatabaseOperations
\* instance and the state of the connection the instance holds
access == <<environment, db_ops, session>>

\* what no call of the validator or of the API handlers writes: the
\* validator's catalog and rule table, the tables of the API's database
\* and the database access
stored == <<database, rules, food_recommendations, food_allergens, access>>

(***************************************************************************)
(* Bounds of the model.                                                    *)
(***************************************************************************)
\* longest list of diseases passed to get_sorted_foods / recommend_foods
MaxDiseases == 2

\* largest max_items passed to recommend_foods
MaxItems == 12

\* how far below zero the max_items passed to recommend_foods goes
MaxNegItems == 2

\* largest meal_count of a meal-plan request
MaxMealCount == 5

\* how far below zero the meal_count of a meal-plan request goes
MaxNegMealCount == 1

\* longest list of health conditions of a meal-plan request
MaxConditions == 2

\* number of callers that use one validator at the same time
MaxCallers == 2

Callers == 1..MaxCallers

(***************************************************************************)
(* Generic helpers.                                                        *)
(***************************************************************************)
Range(s) == {s[i] : i \in 1..Len(s)}

Min(a, b) == IF a <= b THEN a ELSE b

Max(a, b) == IF a >= b THEN a ELSE b

\* all sequences over S of length 0..n
SeqsUpTo(S, n) == UNION {[1..k -> S] : k \in 0..n}

\* Python's str() of a value kept in tenths: 30 -> "3", 3 -> "0.3"
FmtTenths(t) ==
    IF t % 10 = 0 THEN ToString(t \div 10)
    ELSE ToString(t \div 10) \o "." \o ToString(t % 10)

\* Python's seq[:k]
Slice(s, k) ==
    IF k >= 0 THEN SubSeq(s, 1, Min(k, Len(s)))
    ELSE SubSeq(s, 1, Max(0, Len(s) + k))

(***************************************************************************)
(* The food catalog.                                                       *)
(***************************************************************************)
FOOD_DATABASE ==
    [biryani |->
        [name |-> "Biryani", price |-> 899, calories |-> 450,
         sodium_mg |-> 850, sugar_g |-> 2, protein_g |-> 18, fiber_g |-> 30,
         fat_g |-> 120, carbs_g |-> 65, gluten |-> TRUE, lactose |-> FALSE,
         purine_level |-> "high"],
     tandoori |->
        [name |-> "Tandoori Chicken", price |-> 999, calories |-> 280,
         sodium_mg |-> 650, sugar_g |-> 1, protein_g |-> 35, fiber_g |-> 0,
         fat_g |-> 80, carbs_g |-> 5, gluten |-> FALSE, lactose |-> FALSE,
         purine_level |-> "medium"],
     salmon |->
        [name |-> "Grilled Salmon", price |-> 1499, calories |-> 350,
         sodium_mg |-> 500, sugar_g |-> 0, protein_g |-> 40, fiber_g |-> 0,
         fat_g |-> 200, carbs_g |-> 0, gluten |-> FALSE, lactose |-> FALSE,
         purine_level |-> "high", omega3 |-> TRUE],
     steak |->
        [name |-> "Grilled Steak", price |-> 1699, calories |-> 420,
         sodium_mg |-> 700, sugar_g |-> 0, protein_g |-> 45, fiber_g |-> 0,
         fat_g |-> 250, carbs_g |-> 0, gluten |-> FALSE, lactose |-> FALSE,
         purine_level |-> "very_high"],
     pizza |->
        [name |-> "Vegetable Pizza", price |-> 1099, calories |-> 380,
         sodium_mg |-> 920, sugar_g |-> 4, protein_g |-> 14, fiber_g |-> 50,
         fat_g |-> 140, carbs_g |-> 52, gluten |-> TRUE, lactose |-> TRUE,
         purine_level |-> "low"],
     hamburger |->
        [name |-> "Hamburger", price |-> 799, calories |-> 520,
         sodium_mg |-> 1100, sugar_g |-> 8, protein_g |-> 28, fiber_g |-> 20,
         fat_g |-> 280, carbs_g |-> 48, gluten |-> TRUE, lactose |-> TRUE,
         purine_level |-> "high"],
     chocolate_cake |->
        [name |-> "Chocolate Cake", price |-> 599, calories |-> 380,
         sodium_mg |-> 200, sugar_g |-> 45, protein_g |-> 4, fiber_g |-> 20,
         fat_g |-> 180, carbs_g |-> 52, gluten |-> TRUE, lactose |-> TRUE,
         purine_level |-> "low"],
     grilled_meat |->
        [name |-> "Grilled Meat", price |-> 1299, calories |-> 340,
         sodium_mg |-> 600, sugar_g |-> 0, protein_g |-> 40, fiber_g |-> 0,
         fat_g |-> 180, carbs_g |-> 0, gluten |-> FALSE, lactose |-> FALSE,
         purine_level |-> "high"],
     rice |->
        [name |-> "Rice", price |-> 399, calories |-> 206,
         sodium_mg |-> 2, sugar_g |-> 0, protein_g |-> 4, fiber_g |-> 3,
         fat_g |-> 3, carbs_g |-> 45, gluten |-> FALSE, lactose |-> FALSE,
         purine_level |-> "low"],
     lentils |->
        [name |-> "Lentil Curry", price |-> 699, calories |-> 230,
         sodium_mg |-> 500, sugar_g |-> 2, protein_g |-> 18, fiber_g |-> 80,
         fat_g |-> 30, carbs_g |-> 40, gluten |-> FALSE, lactose |-> FALSE,
         purine_level |-> "medium"],
     fruit |->
        [name |-> "Mixed Fruit Salad", price |-> 549, calories |-> 80,
         sodium_mg |-> 20, sugar_g |-> 18, protein_g |-> 1, fiber_g |-> 30,
         fat_g |-> 0, carbs_g |-> 21, gluten |-> FALSE, lactose |-> FALSE,
         purine_level |-> "low"],
     green_tea |->
        [name |-> "Green Tea", price |-> 299, calories |-> 2,
         sodium_mg |-> 5, sugar_g |-> 0, protein_g |-> 0, fiber_g |-> 0,
         fat_g |-> 0, carbs_g |-> 0, gluten |-> FALSE, lactose |-> FALSE,
         purine_level |-> "low"],
     bottle |->
        [name |-> "Water Bottle", price |-> 199, calories |-> 0,
         sodium_mg |-> 0, sugar_g |-> 0, protein_g |-> 0, fiber_g |-> 0,
         fat_g |-> 0, carbs_g |-> 0, gluten |-> FALSE, lactose |-> FALSE,
         purine_level |-> "low"]]

\* iteration order of the catalog dict (insertion order of its literal)
FoodOrder ==
    <<"biryani", "tandoori", "salmon", "steak", "pizza", "hamburger",
      "chocolate_cake", "grilled_meat", "rice", "lentils", "fruit",
      "green_tea", "bottle">>

(***************************************************************************)
(* The rule table.                                                         *)
(***************************************************************************)
DISEASE_RULES ==
    [diabetes |->
        [max_sugar_g |-> 15, max_carbs_g |-> 50, min_fiber_g |-> 2,
         max_calories |-> 400,
         considerations |-> <<"high fiber", "low sugar", "lean protein">>],
     celiac |->
        [gluten |-> FALSE, max_sodium_mg |-> 800, min_fiber_g |-> 3,
         considerations |-> <<"gluten-free", "naturally processed">>],
     hypertension |->
        [max_sodium_mg |-> 600, max_calories |-> 350, min_potassium |-> TRUE,
         max_fat_g |-> 15,
         considerations |-> <<"low sodium", "high potassium", "lean protein">>],
     kidney |->
        [max_sodium_mg |-> 400, max_potassium_foods |-> FALSE,
         max_protein_g |-> 25, max_phosphorus |-> TRUE,
         considerations |->
             <<"low sodium", "moderate protein", "kidney-friendly">>],
     lactose |->
        [lactose |-> FALSE,
         considerations |-> <<"lactose-free", "dairy-free alternatives">>],
     gout |->
        [purine_level |-> <<"low", "medium">>, max_sodium_mg |-> 700,
         min_water |-> TRUE,
         considerations |->
             <<"low purine", "avoid organ meats", "lean protein">>],
     ibs |->
        [min_fiber_g |-> 5, max_fat_g |-> 10, avoid_high_fodmap |-> TRUE,
         considerations |-> <<"high fiber", "low fat", "easy to digest">>]]

\* an identifier that is not a key of the catalog
UnknownFood == "unicorn_steak"

\* an identifier that is not a key of the rule table
UnknownDisease == "scurvy"

FoodIds == DOMAIN FOOD_DATABASE \cup {UnknownFood}

DiseaseIds == DOMAIN DISEASE_RULES \cup {UnknownDisease}

(***************************************************************************)
(* validate_food.                                                          *)
(*                                                                         *)
(* Each branch of the source is a run of independent `if` statements; a    *)
(* run is modelled as the sequence of its tests in source order, each with *)
(* the outcome of its condition, the violation string it appends and the   *)
(* penalty it subtracts.                                                   *)
(***************************************************************************)
Check(hit, msg, penalty) == [hit |-> hit, msg |-> msg, penalty |-> penalty]

\* faulty variant: compares with >= and <= where the source compares with > and <
DiseaseChecksInclusive(food, rl, disease) ==
    CASE disease = "diabetes" ->
           <<Check(food.sugar_g >= rl.max_sugar_g, "High sugar", 15),
             Check(food.carbs_g >= rl.max_carbs_g, "High carbs", 20),
             Check(food.fiber_g <= 10 * rl.min_fiber_g, "Low fiber", 10),
             Check(food.calories >= rl.max_calories, "High calories", 5)>>
      [] disease = "celiac" ->
           <<Check(food.gluten, "Contains gluten", 50),
             Check(food.sodium_mg >= rl.max_sodium_mg, "High sodium", 10),
             Check(food.fiber_g <= 10 * rl.min_fiber_g, "Low fiber", 5)>>
      [] disease = "hypertension" ->
           <<Check(food.sodium_mg >= rl.max_sodium_mg, "High sodium", 25),
             Check(food.calories >= rl.max_calories, "High calories", 10),
             Check(food.fat_g >= 10 * rl.max_fat_g, "High fat", 15)>>
      [] disease = "lactose" ->
           <<Check(food.lactose, "Contains lactose", 50)>>
      [] disease = "gout" ->
           <<Check(food.purine_level \in {"high", "very_high"},
                   "High purine level", 30),
             Check(food.sodium_mg >= rl.max_sodium_mg, "High sodium", 10)>>
      [] disease = "kidney" ->
           <<Check(food.sodium_mg >= rl.max_sodium_mg, "High sodium", 25),
             Check(food.protein_g >= rl.max_protein_g, "High protein", 20)>>
      [] disease = "ibs" ->
           <<Check(food.fiber_g <= 10 * rl.min_fiber_g, "Low fiber", 10),
             Check(food.fat_g >= 10 * rl.max_fat_g, "High fat", 20)>>
      [] OTHER -> <<>>

\* the if / elif chain on the disease name, lines 264-327
DiseaseChecks(food, rl, disease) ==
    CASE disease = "diabetes" ->
           <<Check(food.sugar_g > rl.max_sugar_g,
                   "High sugar: " \o ToString(food.sugar_g) \o "g (max "
                       \o ToString(rl.max_sugar_g) \o "g)", 15),
             Check(food.carbs_g > rl.max_carbs_g,
                   "High carbs: " \o ToString(food.carbs_g) \o "g (max "
                       \o ToString(rl.max_carbs_g) \o "g)", 20),
             Check(food.fiber_g < 10 * rl.min_fiber_g,
                   "Low fiber: " \o FmtTenths(food.fiber_g) \o "g (min "
                       \o ToString(rl.min_fiber_g) \o "g)", 10),
             Check(food.calories > rl.max_calories,
                   "High calories: " \o ToString(food.calories) \o " (max "
                       \o ToString(rl.max_calories) \o ")", 5)>>
      [] disease = "celiac" ->
           <<Check(food.gluten, "Contains gluten", 50),
             Check(food.sodium_mg > rl.max_sodium_mg,
                   "High sodium: " \o ToString(food.sodium_mg) \o "mg (max "
                       \o ToString(rl.max_sodium_mg) \o "mg)", 10),
             Check(food.fiber_g < 10 * rl.min_fiber_g,
                   "Low fiber: " \o FmtTenths(food.fiber_g) \o "g (min "
                       \o ToString(rl.min_fiber_g) \o "g)", 5)>>
      [] disease = "hypertension" ->
           <<Check(food.sodium_mg > rl.max_sodium_mg,
                   "High sodium: " \o ToString(food.sodium_mg) \o "mg (max "
                       \o ToString(rl.max_sodium_mg) \o "mg)", 25),
             Check(food.calories > rl.max_calories,
                   "High calories: " \o ToString(food.calories) \o " (max "
                       \o ToString(rl.max_calories) \o ")", 10),
             Check(food.fat_g > 10 * rl.max_fat_g,
                   "High fat: " \o FmtTenths(food.fat_g) \o "g (max "
                       \o ToString(rl.max_fat_g) \o "g)", 15)>>
      [] disease = "lactose" ->
           <<Check(food.lactose, "Contains lactose", 50)>>
      [] disease = "gout" ->
           <<Check(food.purine_level \in {"high", "very_high"},
                   "High purine level: " \o food.purine_level, 30),
             Check(food.sodium_mg > rl.max_sodium_mg,
                   "High sodium: " \o ToString(food.sodium_mg) \o "mg (max "
                       \o ToString(rl.max_sodium_mg) \o "mg)", 10)>>
      [] disease = "kidney" ->
           <<Check(food.sodium_mg > rl.max_sodium_mg,
                   "High sodium: " \o ToString(food.sodium_mg) \o "mg (max "
                       \o ToString(rl.max_sodium_mg) \o "mg)", 25),
             Check(food.protein_g > rl.max_protein_g,
                   "High protein: " \o ToString(food.protein_g) \o "g (max "
                       \o ToString(rl.max_protein_g) \o "g)", 20)>>
      [] disease = "ibs" ->
           <<Check(food.fiber_g < 10 * rl.min_fiber_g,
                   "Low fiber: " \o FmtTenths(food.fiber_g) \o "g (min "
                       \o ToString(rl.min_fiber_g) \o "g)", 10),
             Check(food.fat_g > 10 * rl.max_fat_g,
                   "High fat: " \o FmtTenths(food.fat_g) \o "g (max "
                       \o ToString(rl.max_fat_g) \o "g)", 20)>>
      [] OTHER -> <<>>

\* a call that ends in KeyError: 'key' instead of returning
Raised(key) == [raised |-> "KeyError", key |-> key]

IsRaised(r) == "raised" \in DOMAIN r

\* the fields of the food record that validate_food subscripts for a
\* disease, in the order it first reads them
FieldsRead(disease) ==
    CASE disease = "diabetes" ->
           <<"sugar_g", "carbs_g", "fiber_g", "calories">>
      [] disease = "celiac" -> <<"gluten", "sodium_mg", "fiber_g">>
      [] disease = "hypertension" -> <<"sodium_mg", "calories", "fat_g">>
      [] disease = "lactose" -> <<"lactose">>
      [] disease = "gout" -> <<"purine_level", "sodium_mg">>
      [] disease = "kidney" -> <<"sodium_mg", "protein_g">>
      [] disease = "ibs" -> <<"fiber_g", "fat_g">>
      [] OTHER -> <<>>

\* the first of the fields read in order that the record lacks, "" if it
\* has them all: the key of the KeyError that food[key] raises
MissingField(food, fields) ==
    LET Lacking(key) == key \notin DOMAIN food
        lacking == SelectSeq(fields, Lacking)
    IN  IF lacking = <<>> THEN "" ELSE lacking[1]

IsHit(c) == c.hit

\* faulty variant: puts each new violation in front of the earlier ones
ViolationsPrepended(checks) ==
    LET hits == SelectSeq(checks, IsHit)
    IN  [i \in 1..Len(hits) |-> hits[Len(hits) + 1 - i].msg]

\* the violations list after the chain: the strings of the tests that fired
Violations(checks) ==
    LET hits == SelectSeq(checks, IsHit)
    IN  [i \in 1..Len(hits) |-> hits[i].msg]

RECURSIVE SumPenalties(_)
RECURSIVE SumPenaltiesOfAll(_)
\* faulty variant: takes the penalty of every test, fired or not
SumPenaltiesOfAll(checks) ==
    IF checks = <<>> THEN 0
    ELSE Head(checks).penalty + SumPenaltiesOfAll(Tail(checks))

\* the penalties taken off the score: those of the tests that fired
SumPenalties(checks) ==
    IF checks = <<>> THEN 0
    ELSE (IF Head(checks).hit THEN Head(checks).penalty ELSE 0)
         + SumPenalties(Tail(checks))

\* faulty variant: starts from the perfect score and adds the penalties
RunningScoreAdded(checks) == 100 + SumPenalties(checks)

\* score = 100, then score -= penalty for every test that fired
RunningScore(checks) == 100 - SumPenalties(checks)

\* faulty variant: sends a score of exactly 50 to avoid
StatusOfStrict(score) ==
    IF score >= 80 THEN "safe"
    ELSE IF score > 50 THEN "caution"
    ELSE "avoid"

\* "Determine status based on score", lines 330-335
StatusOf(score) ==
    IF score >= 80 THEN "safe"
    ELSE IF score >= 50 THEN "caution"
    ELSE "avoid"

\* faulty variant: looks the disease up before the food
validate_food_disease_first(db, rl, food_id, disease) ==
    IF disease \notin DOMAIN rl
    THEN [status |-> "unknown", reason |-> "Disease not found", score |-> 0]
    ELSE IF food_id \notin DOMAIN db
    THEN [status |-> "unknown", reason |-> "Food not found", score |-> 0]
    ELSE IF MissingField(db[food_id], FieldsRead(disease)) # ""
    THEN Raised(MissingField(db[food_id], FieldsRead(disease)))
    ELSE LET checks == DiseaseChecks(db[food_id], rl[disease], disease)
             violations == Violations(checks)
             score == RunningScore(checks)
         IN  [status |-> StatusOf(score),
              reason |-> IF violations # <<>> THEN violations[1]
                         ELSE "Meets dietary requirements",
              score |-> Max(0, score),
              violations |-> violations]

\* FoodValidator.validate_food
validate_food(db, rl, food_id, disease) ==
    IF food_id \notin DOMAIN db
    THEN [status |-> "unknown", reason |-> "Food not found", score |-> 0]
    ELSE IF disease \notin DOMAIN rl
    THEN [status |-> "unknown", reason |-> "Disease not found", score |-> 0]
    ELSE IF MissingField(db[food_id], FieldsRead(disease)) # ""
    THEN Raised(MissingField(db[food_id], FieldsRead(disease)))
    ELSE LET checks == DiseaseChecks(db[food_id], rl[disease], disease)
             violations == Violations(checks)
             score == RunningScore(checks)
         IN  [status |-> StatusOf(score),
              reason |-> IF violations # <<>> THEN violations[1]
                         ELSE "Meets dietary requirements",
              score |-> Max(0, score),
              violations |-> violations]

(***************************************************************************)
(* get_sorted_foods and recommend_foods.                                   *)
(***************************************************************************)
\* the food_info dict built for one catalog entry, lines 361-367
FoodInfo(db, rl, food_id, disease) ==
    LET validation == validate_food(db, rl, food_id, disease)
    IN  [id |-> food_id, name |-> db[food_id].name,
         price |-> db[food_id].price, reason |-> validation.reason,
         score |-> validation.score]

\* faulty variant: tests caution with a fresh `if`, so its else also takes safe
InBucketSplitIf(db, rl, food_id, disease, bucket) ==
    LET status == validate_food(db, rl, food_id, disease).status
    IN  CASE bucket = "safe" -> status = "safe"
          [] bucket = "caution" -> status = "caution"
          [] OTHER -> status # "caution"

\* the if / elif / else on validation["status"], lines 369-374
InBucket(db, rl, food_id, disease, bucket) ==
    LET status == validate_food(db, rl, food_id, disease).status
    IN  CASE bucket = "safe" -> status = "safe"
          [] bucket = "caution" -> status = "caution"
          [] OTHER -> status \notin {"safe", "caution"}

\* the catalog entries, in order, that are present in db
CatalogOrder(db) ==
    LET Present(food_id) == food_id \in DOMAIN db
    IN  SelectSeq(FoodOrder, Present)

\* one bucket list as the loop over the catalog leaves it, before sorting
Appended(db, rl, disease, bucket) ==
    LET Goes(food_id) == InBucket(db, rl, food_id, disease, bucket)
        ids == SelectSeq(CatalogOrder(db), Goes)
    IN  [i \in 1..Len(ids) |-> FoodInfo(db, rl, ids[i], disease)]

\* faulty variant: puts an entry in front of the entries of equal score
InsertByScoreBeforeTies(sorted, x) ==
    LET ahead == Cardinality({i \in 1..Len(sorted) : sorted[i].score > x.score})
    IN  SubSeq(sorted, 1, ahead) \o <<x>> \o SubSeq(sorted, ahead + 1, Len(sorted))

\* x takes its place behind every entry whose score is at least its own
InsertByScore(sorted, x) ==
    LET ahead == Cardinality({i \in 1..Len(sorted) : sorted[i].score >= x.score})
    IN  SubSeq(sorted, 1, ahead) \o <<x>> \o SubSeq(sorted, ahead + 1, Len(sorted))

\* list.sort(key=lambda x: x["score"], reverse=True): stable, descending
RECURSIVE SortByScoreDesc(_)
SortByScoreDesc(s) ==
    IF s = <<>> THEN <<>>
    ELSE InsertByScore(SortByScoreDesc(SubSeq(s, 1, Len(s) - 1)), s[Len(s)])

\* the key of the KeyError that one pass of the inner loop of
\* get_sorted_foods raises, "" if it raises none: validate_food comes
\* first, then food_data["name"] and food_data["price"], lines 359-367
PassRaises(db, rl, food_id, disease) ==
    LET validation == validate_food(db, rl, food_id, disease)
    IN  IF IsRaised(validation) THEN validation.key
        ELSE MissingField(db[food_id], <<"name", "price">>)

\* the passes of the two loops of get_sorted_foods, in the order they run
Passes(db, diseases) ==
    LET ids == CatalogOrder(db)
    IN  [n \in 1..(Len(diseases) * Len(ids)) |->
            [disease |-> diseases[((n - 1) \div Len(ids)) + 1],
             food_id |-> ids[((n - 1) % Len(ids)) + 1]]]

\* the key of the first KeyError of the run, "" if no pass raises
FirstRaise(db, rl, diseases) ==
    LET passes == Passes(db, diseases)
        Fails(pass) == PassRaises(db, rl, pass.food_id, pass.disease) # ""
        failing == SelectSeq(passes, Fails)
    IN  IF failing = <<>> THEN ""
        ELSE PassRaises(db, rl, failing[1].food_id, failing[1].disease)

\* FoodValidator.get_sorted_foods: a dict keyed by the diseases of the list
get_sorted_foods(db, rl, diseases) ==
    IF FirstRaise(db, rl, diseases) # ""
    THEN Raised(FirstRaise(db, rl, diseases))
    ELSE
    [disease \in Range(diseases) |->
        [safe |-> SortByScoreDesc(Appended(db, rl, disease, "safe")),
         caution |-> SortByScoreDesc(Appended(db, rl, disease, "caution")),
         avoid |-> SortByScoreDesc(Appended(db, rl, disease, "avoid"))]]

\* faulty variant: always keeps the default five entries
TopSafeDefault(safe, max_items) == Slice(safe, 5)

\* foods["safe"][:max_items]
TopSafe(safe, max_items) == Slice(safe, max_items)

\* FoodValidator.recommend_foods
recommend_foods(db, rl, diseases, max_items) ==
    LET sorted_foods == get_sorted_foods(db, rl, diseases)
    IN  IF IsRaised(sorted_foods) THEN sorted_foods ELSE
        [disease \in DOMAIN sorted_foods |->
            LET foods == sorted_foods[disease]
                safe == TopSafe(foods.safe, max_items)
            IN  [safe_foods |-> safe,
                 count |-> Len(safe),
                 all_safe |-> Len(foods.safe),
                 total_caution |-> Len(foods.caution),
                 total_avoid |-> Len(foods.avoid)]]

(***************************************************************************)
(* The tables read by generate_meal_plan.  The menu tables are a small     *)
(* fixed menu; the food_recommendations table is state, drawn at start     *)
(* from the tables that can be built out of RecommendationPool.            *)
(***************************************************************************)
\* rows of health_conditions: (condition_id, condition_code)
health_conditions ==
    {[condition_id |-> 1, condition_code |-> "DM"],
     [condition_id |-> 2, condition_code |-> "CD"]}

\* a condition code with no row in health_conditions
UnknownCode == "XX"

ConditionCodes == {c.condition_code : c \in health_conditions} \cup {UnknownCode}

\* food_items JOIN food_categories JOIN nutrition_facts
food_items ==
    {[food_id |-> 1, food_name |-> "Tandoori Chicken",
      category_name |-> "Protein", image_path |-> "img/tandoori.jpg",
      description |-> "Spiced chicken from the clay oven",
      serving_size |-> 200, serving_unit |-> "g",
      is_vegetarian |-> 0, is_vegan |-> 0,
      is_gluten_free |-> 1, is_dairy_free |-> 0,
      calories |-> 280, protein_g |-> 35, carbs_g |-> 5,
      fat_g |-> 8, sodium_mg |-> 650, fiber_g |-> 0, sugar_g |-> 1,
      saturated_fat_g |-> 2],
     [food_id |-> 2, food_name |-> "Grilled Salmon",
      category_name |-> "Seafood", image_path |-> "img/salmon.jpg",
      description |-> "Salmon fillet with lemon",
      serving_size |-> 180, serving_unit |-> "g",
      is_vegetarian |-> 0, is_vegan |-> 0,
      is_gluten_free |-> 1, is_dairy_free |-> 1,
      calories |-> 350, protein_g |-> 40, carbs_g |-> 0,
      fat_g |-> 20, sodium_mg |-> 500, fiber_g |-> 0, sugar_g |-> 0,
      saturated_fat_g |-> 4],
     [food_id |-> 3, food_name |-> "Garden Salad",
      category_name |-> "Vegetarian", image_path |-> "img/salad.jpg",
      description |-> "Leaves, tomato and walnuts",
      serving_size |-> 150, serving_unit |-> "g",
      is_vegetarian |-> 1, is_vegan |-> 1,
      is_gluten_free |-> 1, is_dairy_free |-> 1,
      calories |-> 120, protein_g |-> 3, carbs_g |-> 10,
      fat_g |-> 7, sodium_mg |-> 90, fiber_g |-> 4, sugar_g |-> 5,
      saturated_fat_g |-> 1],
     [food_id |-> 4, food_name |-> "Water Bottle",
      category_name |-> "Drink", image_path |-> "img/bottle.jpg",
      description |-> "Still water",
      serving_size |-> 500, serving_unit |-> "ml",
      is_vegetarian |-> 1, is_vegan |-> 1,
      is_gluten_free |-> 1, is_dairy_free |-> 1,
      calories |-> 0, protein_g |-> 0, carbs_g |-> 0,
      fat_g |-> 0, sodium_mg |-> 0, fiber_g |-> 0, sugar_g |-> 0,
      saturated_fat_g |-> 0],
     [food_id |-> 5, food_name |-> "Chocolate Cake",
      category_name |-> "Dessert", image_path |-> "img/cake.jpg",
      description |-> "Layered cake with ganache",
      serving_size |-> 120, serving_unit |-> "g",
      is_vegetarian |-> 1, is_vegan |-> 0,
      is_gluten_free |-> 0, is_dairy_free |-> 0,
      calories |-> 380, protein_g |-> 4, carbs_g |-> 52,
      fat_g |-> 18, sodium_mg |-> 200, fiber_g |-> 2, sugar_g |-> 45,
      saturated_fat_g |-> 11],
     [food_id |-> 6, food_name |-> "Grilled Steak",
      category_name |-> "Meat", image_path |-> "img/steak.jpg",
      description |-> "Sirloin with pepper butter",
      serving_size |-> 250, serving_unit |-> "g",
      is_vegetarian |-> 0, is_vegan |-> 0,
      is_gluten_free |-> 1, is_dairy_free |-> 0,
      calories |-> 420, protein_g |-> 45, carbs_g |-> 0,
      fat_g |-> 25, sodium_mg |-> 700, fiber_g |-> 0, sugar_g |-> 0,
      saturated_fat_g |-> 10]}

Rec(food_id, condition_id, type, score) ==
    [food_id |-> food_id, condition_id |-> condition_id,
     recommendation_type |-> type, safety_score |-> score,
     reasoning |-> ""]

\* candidate rows of food_recommendations
RecommendationPool ==
    {Rec(1, 1, "Recommended", 7),
     Rec(1, 2, "Caution", 8),
     Rec(2, 1, "Highly Recommended", 9),
     Rec(2, 2, "Highly Recommended", 9),
     Rec(3, 1, "Highly Recommended", 10),
     Rec(3, 2, "Recommended", 8),
     Rec(4, 1, "Recommended", 6),
     Rec(4, 2, "Highly Recommended", 9),
     Rec(5, 1, "Highly Recommended", 9),
     Rec(6, 1, "Highly Recommended", 9),
     Rec(6, 2, "Avoid", 2)}

\* largest number of rows of food_recommendations
MaxRecRows == 3

RecommendationTables ==
    {t \in SUBSET RecommendationPool : Cardinality(t) <= MaxRecRows}

(***************************************************************************)
(* generate_meal_plan.                                                     *)
(***************************************************************************)
\* SELECT condition_id FROM health_conditions WHERE condition_code IN (...)
ConditionIds(codes) ==
    {c.condition_id : c \in {h \in health_conditions :
                                  h.condition_code \in Range(codes)}}

\* the SELECT DISTINCT of lines 402-413, before ORDER BY: a set of rows
SafeFoodRows(recs, condition_ids) ==
    {[id |-> fi.food_id, name |-> fi.food_name,
      category |-> fi.category_name, image_path |-> fi.image_path,
      safety_score |-> fr.safety_score, calories |-> fi.calories,
      protein |-> fi.protein_g, carbs |-> fi.carbs_g] :
        <<fi, fr>> \in
            {p \in food_items \X recs :
                /\ p[1].food_id = p[2].food_id
                /\ p[2].condition_id \in condition_ids
                /\ p[2].recommendation_type \in
                       {"Highly Recommended", "Recommended"}
                /\ p[2].safety_score >= 7}}

\* ORDER BY fr.safety_score DESC: every listing of the rows by falling
\* score; rows of equal score come in an order the database picks
OrderedByScoreDesc(rows) ==
    LET n == Cardinality(rows)
    IN  {s \in [1..n -> rows] :
            /\ \A i, j \in 1..n : i # j => s[i] # s[j]
            /\ \A i \in 1..n, j \in 1..n :
                   i < j => s[i].safety_score >= s[j].safety_score}

\* faulty variant: every eligible food is listed under every category
FoodsOfCategoryAny(safe_foods, cat) == safe_foods

\* foods_by_category[cat]: the rows of the category, in result order
FoodsOfCategory(safe_foods, cat) ==
    LET InCat(food) == food.category = cat
    IN  SelectSeq(safe_foods, InCat)

\* "for cat in categories: if cat in foods_by_category ...: append; break"
RECURSIVE PickForRole(_, _)
PickForRole(safe_foods, categories) ==
    IF categories = <<>> THEN <<>>
    ELSE LET listed == FoodsOfCategory(safe_foods, Head(categories))
         IN  IF listed # <<>> THEN <<listed[1]>>
             ELSE PickForRole(safe_foods, Tail(categories))

meal_types == <<"Breakfast", "Lunch", "Dinner">>

protein_categories == <<"Protein", "Seafood", "Meat">>

side_categories == <<"Vegetarian", "Indian">>

drink_categories == <<"Drink">>

RECURSIVE SumCalories(_)
\* faulty variant: counts the calories of the first food only
SumCaloriesOfFirst(foods) ==
    IF foods = <<>> THEN 0 ELSE Head(foods).calories

\* meal['total_calories'] += food['calories'] for every food placed
SumCalories(foods) ==
    IF foods = <<>> THEN 0
    ELSE Head(foods).calories + SumCalories(Tail(foods))

\* faulty variant: a slot passes over the rows the earlier slots began with
MealOfRemaining(safe_foods, i) ==
    LET remaining == SubSeq(safe_foods, i, Len(safe_foods))
        foods == PickForRole(remaining, protein_categories)
                 \o PickForRole(remaining, side_categories)
                 \o PickForRole(remaining, drink_categories)
    IN  [meal_type |-> meal_types[i], foods |-> foods,
         total_calories |-> SumCalories(foods)]

\* one pass of the loop body, lines 440-475
Meal(safe_foods, i) ==
    LET foods == PickForRole(safe_foods, protein_categories)
                 \o PickForRole(safe_foods, side_categories)
                 \o PickForRole(safe_foods, drink_categories)
    IN  [meal_type |-> meal_types[i], foods |-> foods,
         total_calories |-> SumCalories(foods)]

\* faulty variant: stops one short of the list of meal types
SlotCountShort(meal_count) == Max(0, Min(meal_count, Len(meal_types) - 1))

\* len(range(min(meal_count, len(meal_types))))
SlotCount(meal_count) == Max(0, Min(meal_count, Len(meal_types)))

\* data.get('meal_count', 3)
MealCountOf(data) ==
    IF "meal_count" \in DOMAIN data THEN data.meal_count ELSE 3

\* the response of generate_meal_plan to the JSON body data when the
\* recommendation query returns safe_foods
MealPlanResponse(data, safe_foods) ==
    IF "health_conditions" \notin DOMAIN data
    THEN [code |-> 400, success |-> FALSE,
          message |-> "Health conditions required"]
    ELSE IF ConditionIds(data.health_conditions) = {}
    THEN [code |-> 400, success |-> FALSE,
          message |-> "Invalid health conditions"]
    ELSE IF safe_foods = <<>>
    THEN [code |-> 200, success |-> FALSE,
          message |-> "No safe foods found for the provided conditions"]
    ELSE [code |-> 200, success |-> TRUE,
          data |-> [i \in 1..SlotCount(MealCountOf(data)) |->
                        Meal(safe_foods, i)]]

\* the db.execute_query calls generate_meal_plan makes for the body data
MealPlanLookups(data) ==
    IF "health_conditions" \notin DOMAIN data THEN 0
    ELSE IF ConditionIds(data.health_conditions) = {} THEN 1
    ELSE 2

\* the JSON bodies sent to /api/meal-plan
MealPlanRequests ==
    LET lists == SeqsUpTo(ConditionCodes, MaxConditions)
        counts == -MaxNegMealCount..MaxMealCount
    IN  {[health_conditions |-> hc, meal_count |-> mc] :
             hc \in lists, mc \in counts}
        \cup {[health_conditions |-> hc] : hc \in lists}
        \cup {[meal_count |-> mc] : mc \in counts}

(***************************************************************************)
(* The food list, the allergen filter and the comparison.  The             *)
(* food_allergens table (joined with allergens) is state, drawn at start   *)
(* from the tables that can be built out of AllergenPool.                  *)
(***************************************************************************)
\* a row of food_allergens JOIN allergens
AllergenRow(food_id, allergen_name) ==
    [food_id |-> food_id, allergen_name |-> allergen_name]

\* candidate rows of food_allergens
AllergenPool ==
    {AllergenRow(1, "Dairy"),
     AllergenRow(2, "Fish"),
     AllergenRow(3, "Nuts"),
     AllergenRow(3, "Dairy"),
     AllergenRow(4, "Dairy"),
     AllergenRow(5, "Gluten"),
     AllergenRow(5, "Dairy"),
     AllergenRow(6, "Dairy")}

\* largest number of rows of food_allergens
MaxAllergenRows == 6

AllergenTables ==
    {t \in SUBSET AllergenPool : Cardinality(t) <= MaxAllergenRows}

\* allergen names a request may carry; no food of the pool carries "Soy"
AllergenNames == {"Dairy", "Fish", "Gluten", "Soy"}

\* longest exclude_allergens list of a request
MaxAllergens == 2

\* longest food_ids list of a request
MaxFoodIds == 3

\* food ids a compare request may carry; 99 is no row of food_items
CompareIds == {1, 2, 5, 99}

\* a JSON array and a JSON string, told apart as isinstance(x, list) does
JsonList(items) == [type |-> "list", items |-> items]

JsonStr(value) == [type |-> "str", value |-> value]

\* the food names in the order the database collates them
Collation ==
    <<"Chocolate Cake", "Garden Salad", "Grilled Salmon", "Grilled Steak",
      "Tandoori Chicken", "Water Bottle">>

NameRank(name) == CHOOSE i \in 1..Len(Collation) : Collation[i] = name

\* ORDER BY fi.food_name
RECURSIVE OrderedByName(_)
OrderedByName(rows) ==
    IF rows = {} THEN <<>>
    ELSE LET first == CHOOSE r \in rows :
                 \A q \in rows :
                     NameRank(r.food_name) <= NameRank(q.food_name)
         IN  <<first>> \o OrderedByName(rows \ {first})

\* text LIKE '%search%' for the search words and the texts of the model:
\* the pairs <<search, text>> for which it holds
LikePairs ==
    {<<"Grilled", "Grilled Salmon">>,
     <<"Grilled", "Grilled Steak">>,
     <<"lemon", "Salmon fillet with lemon">>}

Like(search, text) == <<search, text>> \in LikePairs

\* "float(x) if x else 0"
Num(x) == IF x # 0 THEN x ELSE 0

\* the query string of a request: request.args.get('category') and
\* request.args.get('search', ''), "" standing for an absent or empty
\* parameter (both are falsy)
QueryArgs ==
    {[category |-> c, search |-> s] :
         c \in {"", "Drink", "Soup"}, s \in {"", "Grilled", "lemon", "zzz"}}

\* the rows of the query get_foods picks for its arguments
FoodsQuery(args) ==
    IF args.category # ""
    THEN {fi \in food_items : fi.category_name = args.category}
    ELSE IF args.search # ""
    THEN {fi \in food_items : \/ Like(args.search, fi.food_name)
                              \/ Like(args.search, fi.description)}
    ELSE food_items

\* one element of the data list of get_foods
FoodJson(food) ==
    [id |-> food.food_id, name |-> food.food_name,
     category |-> food.category_name, description |-> food.description,
     image_path |-> food.image_path, serving_size |-> food.serving_size,
     serving_unit |-> food.serving_unit,
     is_vegetarian |-> food.is_vegetarian # 0,
     is_vegan |-> food.is_vegan # 0,
     is_gluten_free |-> food.is_gluten_free # 0,
     is_dairy_free |-> food.is_dairy_free # 0,
     nutrition |-> [calories |-> Num(food.calories),
                    protein |-> Num(food.protein_g),
                    carbs |-> Num(food.carbs_g),
                    fat |-> Num(food.fat_g),
                    sodium |-> Num(food.sodium_mg)]]

\* the response of get_foods to a request with the query string args
get_foods(args) ==
    LET foods == OrderedByName(FoodsQuery(args))
    IN  IF foods # <<>>
        THEN [code |-> 200, success |-> TRUE,
              data |-> [i \in 1..Len(foods) |-> FoodJson(foods[i])]]
        ELSE [code |-> 200, success |-> FALSE,
              message |-> "No foods found"]

\* faulty variant: only the first excluded allergen is looked at
FoodsWithAllergenFirst(allergen_rows, exclude_allergens) ==
    {fa.food_id : fa \in {r \in allergen_rows :
                              r.allergen_name = exclude_allergens[1]}}

\* the subquery of lines 508-513: the foods carrying an excluded allergen
FoodsWithAllergen(allergen_rows, exclude_allergens) ==
    {fa.food_id : fa \in {r \in allergen_rows :
                              r.allergen_name \in Range(exclude_allergens)}}

\* one element of the data list of filter_by_allergens
SafeFoodJson(food) ==
    [id |-> food.food_id, name |-> food.food_name,
     category |-> food.category_name, description |-> food.description,
     image_path |-> food.image_path,
     nutrition |-> [calories |-> Num(food.calories),
                    protein |-> Num(food.protein_g),
                    carbs |-> Num(food.carbs_g),
                    fat |-> Num(food.fat_g),
                    sodium |-> Num(food.sodium_mg)]]

\* the response of filter_by_allergens to the JSON body data sent with the
\* query string args, the allergen table holding allergen_rows
filter_by_allergens(allergen_rows, data, args) ==
    IF "exclude_allergens" \notin DOMAIN data
    THEN [code |-> 400, success |-> FALSE,
          message |-> "Allergens to exclude required"]
    ELSE IF data.exclude_allergens.type # "list"
    THEN [code |-> 400, success |-> FALSE,
          message |-> "Allergens must be provided as a list"]
    ELSE IF Len(data.exclude_allergens.items) = 0
    THEN get_foods(args)
    ELSE LET excluded == FoodsWithAllergen(allergen_rows,
                                           data.exclude_allergens.items)
             safe_foods == OrderedByName(
                 {fi \in food_items : fi.food_id \notin excluded})
         IN  IF safe_foods # <<>>
             THEN [code |-> 200, success |-> TRUE,
                   data |-> [i \in 1..Len(safe_foods) |->
                                 SafeFoodJson(safe_foods[i])]]
             ELSE [code |-> 200, success |-> FALSE,
                   message |->
                       "No safe foods found after allergen filtering"]

\* the db.execute_query calls filter_by_allergens makes for the body data
AllergenLookups(data) ==
    IF "exclude_allergens" \notin DOMAIN data THEN 0
    ELSE IF data.exclude_allergens.type # "list" THEN 0
    ELSE 1

\* the JSON bodies sent to /api/allergen-filter
AllergenRequests ==
    {[exclude_allergens |-> JsonList(l)] :
         l \in SeqsUpTo(AllergenNames, MaxAllergens)}
        \cup {[exclude_allergens |-> JsonStr("Dairy")]}
        \cup {[allergens |-> JsonList(<<"Dairy">>)]}

\* the rows the query of compare_foods returns for food_id
CompareQuery(food_id) == {fi \in food_items : fi.food_id = food_id}

\* the entry compare_foods appends to comparisons for a food it found
Comparison(food_id) ==
    LET food_data == CHOOSE fi \in CompareQuery(food_id) : TRUE
    IN  [id |-> food_id, name |-> food_data.food_name,
         category |-> food_data.category_name,
         image_path |-> food_data.image_path,
         nutrition |-> [calories |-> Num(food_data.calories),
                        protein |-> Num(food_data.protein_g),
                        carbs |-> Num(food_data.carbs_g),
                        fat |-> Num(food_data.fat_g),
                        sodium |-> Num(food_data.sodium_mg),
                        fiber |-> Num(food_data.fiber_g),
                        sugar |-> Num(food_data.sugar_g),
                        saturated_fat |-> Num(food_data.saturated_fat_g)]]

\* faulty variant: the first food's value minus the second's
DifferencesFirstMinusSecond(comparisons) ==
    [key \in DOMAIN comparisons[1].nutrition |->
         comparisons[1].nutrition[key] - comparisons[2].nutrition[key]]

\* nutrition_diff, lines 359-361
Differences(comparisons) ==
    [key \in DOMAIN comparisons[1].nutrition |->
         comparisons[2].nutrition[key] - comparisons[1].nutrition[key]]

\* faulty variant: a list of two or more passes
IsPairAtLeast(food_ids) ==
    food_ids.type = "list" /\ Len(food_ids.items) >= 2

\* "isinstance(food_ids, list) and len(food_ids) == 2"
IsPair(food_ids) ==
    food_ids.type = "list" /\ Len(food_ids.items) = 2

\* faulty variant: only the first identifier can be reported missing
MissingAtHeadOnly(ids) ==
    IF ids # <<>> /\ CompareQuery(ids[1]) = {} THEN 1 ELSE 0

\* the position in ids of the first identifier the query finds no row
\* for, 0 if every one is found: where the loop of lines 324-355 returns
MissingAt(ids) ==
    IF \A i \in 1..Len(ids) : CompareQuery(ids[i]) # {} THEN 0
    ELSE CHOOSE i \in 1..Len(ids) :
             /\ CompareQuery(ids[i]) = {}
             /\ \A j \in 1..(i - 1) : CompareQuery(ids[j]) # {}

\* the identifiers the loop has appended a comparison for when it ends:
\* all of them, or those in front of the first that is not found, at
\* which the handler returns
FoundIds(ids) ==
    LET AllFound(n) == \A j \in 1..n : CompareQuery(ids[j]) # {}
        reached == CHOOSE n \in 0..Len(ids) :
                       /\ AllFound(n)
                       /\ \A m \in (n + 1)..Len(ids) : ~AllFound(m)
    IN  SubSeq(ids, 1, reached)

\* the response of compare_foods to the JSON body data
compare_foods(data) ==
    IF "food_ids" \notin DOMAIN data
    THEN [code |-> 400, success |-> FALSE, message |-> "Food IDs required"]
    ELSE IF ~IsPair(data.food_ids)
    THEN [code |-> 400, success |-> FALSE,
          message |-> "Exactly two food IDs required"]
    ELSE LET ids == data.food_ids.items
             missing == MissingAt(ids)
             comparisons == [i \in 1..Len(FoundIds(ids)) |->
                                 Comparison(FoundIds(ids)[i])]
         IN  IF missing # 0
             THEN [code |-> 404, success |-> FALSE,
                   message |-> "Food with ID " \o ToString(ids[missing])
                               \o " not found"]
             ELSE IF Len(comparisons) = 2
             THEN [code |-> 200, success |-> TRUE,
                   data |-> [foods |-> comparisons,
                             differences |-> Differences(comparisons)]]
             ELSE [code |-> 400, success |-> FALSE,
                   message |-> "Unable to compare foods"]

\* the db.execute_query calls compare_foods makes for the body data: none
\* when the body is rejected, else one for each identifier up to and
\* including the first that is not found
CompareLookups(data) ==
    IF "food_ids" \notin DOMAIN data THEN 0
    ELSE IF ~IsPair(data.food_ids) THEN 0
    ELSE LET ids == data.food_ids.items
         IN  IF MissingAt(ids) # 0 THEN MissingAt(ids) ELSE Len(ids)

\* the JSON bodies sent to /api/compare-foods
CompareRequests ==
    {[food_ids |-> JsonList(l)] : l \in SeqsUpTo(CompareIds, MaxFoodIds)}
        \cup {[food_ids |-> JsonStr("12")]}
        \cup {[foods |-> JsonList(<<1, 2>>)]}

(***************************************************************************)
(* get_food_recommendations.                                               *)
(***************************************************************************)
\* the SELECT DISTINCT of lines 192-202, before ORDER BY: a set of rows,
\* one for each distinct combination of a food with the type, score and
\* reasoning of one of its recommendations for the conditions
RecommendationRows(recs, condition_ids) ==
    {[food |-> p[1], recommendation_type |-> p[2].recommendation_type,
      safety_score |-> p[2].safety_score, reasoning |-> p[2].reasoning] :
        p \in {q \in food_items \X recs :
                  /\ q[1].food_id = q[2].food_id
                  /\ q[2].condition_id \in condition_ids}}

\* ORDER BY fr.safety_score DESC, fi.food_name: every listing of the rows
\* by falling score and, within a score, by name; rows equal in both come
\* in an order the database picks
OrderedByScoreThenName(rows) ==
    LET n == Cardinality(rows)
    IN  {s \in [1..n -> rows] :
            /\ \A i, j \in 1..n : i # j => s[i] # s[j]
            /\ \A i, j \in 1..n :
                   i < j =>
                       \/ s[i].safety_score > s[j].safety_score
                       \/ /\ s[i].safety_score = s[j].safety_score
                          /\ NameRank(s[i].food.food_name)
                                 <= NameRank(s[j].food.food_name)}

\* rec[5].lower().replace(' ', '_')
TierKey(recommendation_type) ==
    CASE recommendation_type = "Highly Recommended" -> "highly_recommended"
      [] recommendation_type = "Recommended" -> "recommended"
      [] recommendation_type = "Caution" -> "caution"
      [] recommendation_type = "Avoid" -> "avoid"
      [] OTHER -> "other"

\* the food_data dict of one row, lines 217-238
RecommendedFoodJson(row) ==
    [id |-> row.food.food_id, name |-> row.food.food_name,
     category |-> row.food.category_name,
     description |-> row.food.description,
     image_path |-> row.food.image_path,
     safety_score |-> row.safety_score, reasoning |-> row.reasoning,
     nutrition |-> [calories |-> Num(row.food.calories),
                    protein |-> Num(row.food.protein_g),
                    carbs |-> Num(row.food.carbs_g),
                    fat |-> Num(row.food.fat_g),
                    sodium |-> Num(row.food.sodium_mg)],
     dietary_flags |-> [vegetarian |-> row.food.is_vegetarian # 0,
                        vegan |-> row.food.is_vegan # 0,
                        gluten_free |-> row.food.is_gluten_free # 0,
                        dairy_free |-> row.food.is_dairy_free # 0]]

\* result[key]: the rows of the tier, in result order
TierList(recommendations, key) ==
    LET InTier(row) == TierKey(row.recommendation_type) = key
        rows == SelectSeq(recommendations, InTier)
    IN  [i \in 1..Len(rows) |-> RecommendedFoodJson(rows[i])]

\* the response of get_food_recommendations to the JSON body data when the
\* recommendation query returns recommendations
RecommendationsResponse(data, recommendations) ==
    IF "health_conditions" \notin DOMAIN data
    THEN [code |-> 400, success |-> FALSE,
          message |-> "Health conditions required"]
    ELSE IF \/ data.health_conditions.type # "list"
            \/ Len(data.health_conditions.items) = 0
    THEN [code |-> 400, success |-> FALSE,
          message |-> "At least one health condition required"]
    ELSE IF ConditionIds(data.health_conditions.items) = {}
    THEN [code |-> 400, success |-> FALSE,
          message |-> "Invalid health conditions provided"]
    ELSE IF recommendations # <<>>
    THEN [code |-> 200, success |-> TRUE,
          data |-> [highly_recommended |->
                        TierList(recommendations, "highly_recommended"),
                    recommended |->
                        TierList(recommendations, "recommended"),
                    caution |-> TierList(recommendations, "caution"),
                    avoid |-> TierList(recommendations, "avoid")]]
    ELSE [code |-> 200, success |-> FALSE,
          message |-> "No recommendations found for provided conditions"]

\* the condition ids get_food_recommendations queries for the body data
RequestConditionIds(data) ==
    IF /\ "health_conditions" \in DOMAIN data
       /\ data.health_conditions.type = "list"
    THEN ConditionIds(data.health_conditions.items)
    ELSE {}

\* the db.execute_query calls get_food_recommendations makes
RecommendationLookups(data) ==
    IF "health_conditions" \notin DOMAIN data THEN 0
    ELSE IF \/ data.health_conditions.type # "list"
            \/ Len(data.health_conditions.items) = 0 THEN 0
    ELSE IF ConditionIds(data.health_conditions.items) = {} THEN 1
    ELSE 2

\* the JSON bodies sent to /api/food-recommendations
RecommendationRequests ==
    {[health_conditions |-> JsonList(l)] :
         l \in SeqsUpTo(ConditionCodes, MaxConditions)}
        \cup {[health_conditions |-> JsonStr("DM")]}
        \cup {[conditions |-> JsonList(<<"DM">>)]}

(***************************************************************************)
(* DatabaseConfig and DatabaseOperations (db_config/connection.py,         *)
(* db_config/operations.py and the single-file database_config.py).        *)
(*                                                                         *)
(* A connection is known by its kind: "mysql", "sqlite" or "None".  A      *)
(* query is the sequence of the pieces of its text, a placeholder being a  *)
(* piece of its own: "?" as the callers write it, "%s" after the           *)
(* replacement for MySQL.                                                  *)
(***************************************************************************)
\* the two modules that define DatabaseOperations
Modules == {"db_config.operations", "database_config"}

\* what the process finds when it starts: the module DatabaseOperations is
\* taken from, os.getenv('DATABASE_TYPE', 'sqlite'), whether
\* `import mysql.connector` worked, whether mysql.connector.connect
\* reaches a server and whether sqlite3.connect opens the database file
Environments ==
    [module : Modules, DATABASE_TYPE : {"sqlite", "mysql"},
     MYSQL_AVAILABLE : BOOLEAN, mysql_reachable : BOOLEAN,
     sqlite_opens : BOOLEAN]

\* the environment of the API process: no DATABASE_TYPE set, no connector
DefaultEnvironment ==
    [module |-> "db_config.operations", DATABASE_TYPE |-> "sqlite",
     MYSQL_AVAILABLE |-> FALSE, mysql_reachable |-> FALSE,
     sqlite_opens |-> TRUE]

get_sqlite_connection(env) == IF env.sqlite_opens THEN "sqlite" ELSE "None"

get_mysql_connection(env) ==
    IF ~env.MYSQL_AVAILABLE THEN "None"
    ELSE IF env.mysql_reachable THEN "mysql"
    ELSE "None"

get_connection(env) ==
    IF env.DATABASE_TYPE = "mysql" /\ env.MYSQL_AVAILABLE
    THEN IF get_mysql_connection(env) # "None"
         THEN get_mysql_connection(env)
         ELSE get_sqlite_connection(env)
    ELSE get_sqlite_connection(env)

\* a construction that ends in NameError: name 'name' is not defined
RaisedNameError(name) == [raised |-> "NameError", key |-> name]

\* DatabaseOperations.__init__: the instance, or the NameError of
\* db_config/operations.py, which reads MYSQL_AVAILABLE without importing
\* it as soon as DATABASE_TYPE == 'mysql' lets the `and` go on
DatabaseOperations(env) ==
    IF env.module = "db_config.operations" /\ env.DATABASE_TYPE = "mysql"
    THEN RaisedNameError("MYSQL_AVAILABLE")
    ELSE [connection |-> get_connection(env),
          is_mysql |-> (env.DATABASE_TYPE = "mysql" /\ env.MYSQL_AVAILABLE)]

\* a connection just opened: nothing written, no transaction open
FreshSession == [open |-> TRUE, committed |-> 0, pending |-> 0]

\* the SELECT statements and the INSERT statements handed to the instance,
\* without and with a parameter
Selects == {<<"SELECT 1">>, <<"SELECT x FROM t WHERE x = ", "?">>}

Updates ==
    {<<"INSERT INTO t(x) VALUES (2)">>,
     <<"INSERT INTO t(x) VALUES (", "?", ")">>}

\* query.replace('?', '%s')
Replaced(query) ==
    [i \in DOMAIN query |-> IF query[i] = "?" THEN "%s" ELSE query[i]]

\* "Adjust query for MySQL if needed"
Adjusted(ops, query) == IF ops.is_mysql THEN Replaced(query) ELSE query

\* whether cursor.execute of the connection takes the text: SQLite knows
\* the placeholder ? and fails on %s with a syntax error, MySQL the reverse
Accepts(connection, text) ==
    CASE connection = "sqlite" -> "%s" \notin Range(text)
      [] connection = "mysql" -> "?" \notin Range(text)
      [] OTHER -> FALSE

\* whether the call gets as far as a cursor.execute that succeeds
Executes(ops, conn, query) ==
    /\ ops.connection # "None"
    /\ conn.open
    /\ Accepts(ops.connection, Adjusted(ops, query))

\* execute_query: the rows, or None without a connection and on any error;
\* `executed` is the text cursor.execute was given, <<>> if none
execute_query(ops, conn, query) ==
    IF ops.connection = "None" \/ ~conn.open
    THEN [result |-> "None", executed |-> <<>>]
    ELSE [result |-> IF Executes(ops, conn, query) THEN "rows" ELSE "None",
          executed |-> Adjusted(ops, query)]

\* execute_update: True after cursor.execute (and, for is_mysql false,
\* commit), False without a connection and on any error
execute_update(ops, conn, query) ==
    IF ops.connection = "None" \/ ~conn.open
    THEN [result |-> FALSE, executed |-> <<>>]
    ELSE [result |-> Executes(ops, conn, query),
          executed |-> Adjusted(ops, query)]

\* the connection after execute_update: a statement SQLite runs opens a
\* transaction, which only connection.commit() ends; the MySQL connection
\* is opened with autocommit
SessionAfterUpdate(ops, conn, query) ==
    IF ~Executes(ops, conn, query) THEN conn
    ELSE IF ops.connection = "mysql"
    THEN [conn EXCEPT !.committed = @ + 1]
    ELSE IF ~ops.is_mysql
    THEN [conn EXCEPT !.committed = @ + conn.pending + 1, !.pending = 0]
    ELSE [conn EXCEPT !.pending = @ + 1]

\* connection.close(): what was not committed is rolled back
SessionAfterClose(ops, conn) ==
    IF ops.connection = "None" THEN conn
    ELSE [conn EXCEPT !.open = FALSE, !.pending = 0]

\* largest number of statements written through one connection
MaxUpdates == 2

(***************************************************************************)
(* The state machine.  A sequential caller makes one call at a time: call  *)
(* is the call it has made and ret what the call returned, both "none"     *)
(* while the caller is between calls.  database and rules are the          *)
(* validator's self.database and self.rules; lookups counts the queries    *)
(* the handler of the call has sent to the database.                       *)
(***************************************************************************)
\* a caller between calls
IdleThread ==
    [pc |-> "idle", call |-> [op |-> "none"], d |-> 0, i |-> 0,
     ret |-> [op |-> "none"]]

IdleThreads == [t \in Callers |-> IdleThread]

\* the locals of a call as it enters: violations = [], score = 100,
\* result = {}, safe_foods = [], caution_foods = [], avoid_foods = []
FreshFrame ==
    [violations |-> <<>>, score |-> 100, result |-> <<>>,
     safe |-> <<>>, caution |-> <<>>, avoid |-> <<>>]

FreshFrames == [f \in Callers |-> FreshFrame]

\* FoodValidator.__init__
Init ==
    /\ database = FOOD_DATABASE
    /\ rules = DISEASE_RULES
    /\ call = [op |-> "none"]
    /\ ret = [op |-> "none"]
    /\ food_recommendations = {}
    /\ food_allergens = {}
    /\ lookups = 0
    /\ threads = IdleThreads
    /\ frames = FreshFrames
    /\ environment = DefaultEnvironment
    /\ db_ops = DatabaseOperations(DefaultEnvironment)
    /\ session = FreshSession

\* faulty variant: keeps the score it computed in the catalog record
ValidateFoodKeepingScore ==
    \E food_id \in FoodIds, disease \in DiseaseIds :
        /\ call.op = "none"
        /\ call' = [op |-> "validate_food", food_id |-> food_id,
                    disease |-> disease]
        /\ ret' = validate_food(database, rules, food_id, disease)
        /\ lookups' = 0
        /\ database' =
               IF food_id \in DOMAIN database
               THEN [database EXCEPT ![food_id] =
                        [k \in DOMAIN @ \cup {"score"} |->
                            IF k = "score" THEN ret'.score ELSE @[k]]]
               ELSE database
        /\ UNCHANGED <<rules, food_recommendations, food_allergens, callers,
                       access>>

ValidateFood ==
    \E food_id \in FoodIds, disease \in DiseaseIds :
        /\ call.op = "none"
        /\ call' = [op |-> "validate_food", food_id |-> food_id,
                    disease |-> disease]
        /\ ret' = validate_food(database, rules, food_id, disease)
        /\ lookups' = 0
        /\ UNCHANGED <<stored, callers>>

GetSortedFoods ==
    \E diseases \in SeqsUpTo(DiseaseIds, MaxDiseases) :
        /\ call.op = "none"
        /\ call' = [op |-> "get_sorted_foods", diseases |-> diseases]
        /\ ret' = get_sorted_foods(database, rules, diseases)
        /\ lookups' = 0
        /\ UNCHANGED <<stored, callers>>

RecommendFoods ==
    \E diseases \in SeqsUpTo(DiseaseIds, MaxDiseases),
       max_items \in -MaxNegItems..MaxItems :
        /\ call.op = "none"
        /\ call' = [op |-> "recommend_foods", diseases |-> diseases,
                    max_items |-> max_items]
        /\ ret' = recommend_foods(database, rules, diseases, max_items)
        /\ lookups' = 0
        /\ UNCHANGED <<stored, callers>>

\* the caller has taken the result and is free to make the next call
Return ==
    /\ call.op # "none"
    /\ call' = [op |-> "none"]
    /\ ret' = [op |-> "none"]
    /\ lookups' = 0
    /\ UNCHANGED <<stored, callers>>

Next == ValidateFood \/ GetSortedFoods \/ RecommendFoods \/ Return

Spec == Init /\ [][Next]_vars

(***************************************************************************)
(* Concurrent callers of one validator.  Each caller runs one call at a    *)
(* time, a step at a time: validate_food one test of the chain per step,   *)
(* get_sorted_foods and recommend_foods one pass of the inner loop per     *)
(* step.  threads[t] is where caller t stands; frames[f] holds the local   *)
(* variables of a call in progress: violations and score of                *)
(* validate_food, the three lists and result of get_sorted_foods.  The     *)
(* catalog and the rule table are the one database and rules.              *)
(***************************************************************************)
\* the calls a concurrent caller may make
ConcurrentCalls ==
    {[op |-> "validate_food", food_id |-> "pizza", disease |-> "celiac"],
     [op |-> "validate_food", food_id |-> "hamburger",
      disease |-> "diabetes"],
     [op |-> "validate_food", food_id |-> UnknownFood,
      disease |-> "diabetes"],
     [op |-> "get_sorted_foods", diseases |-> <<"celiac", "gout">>],
     [op |-> "recommend_foods", diseases |-> <<"diabetes">>,
      max_items |-> 2]}

\* faulty variant: the locals are kept on the validator, one set for all
FrameOnInstance(t) == 1

\* the frame of caller t's call: locals belong to the call
Frame(t) == t

\* a caller enters a call; an unknown food or disease makes validate_food
\* return at once
BeginCall ==
    \E t \in Callers, c \in ConcurrentCalls :
        /\ threads[t].pc = "idle"
        /\ frames' = [frames EXCEPT ![Frame(t)] = FreshFrame]
        /\ threads' = [threads EXCEPT ![t] =
               IF c.op = "validate_food"
               THEN IF c.food_id \in DOMAIN database
                       /\ c.disease \in DOMAIN rules
                    THEN [pc |-> "check", call |-> c, d |-> 0, i |-> 1,
                          ret |-> [op |-> "none"]]
                    ELSE [pc |-> "done", call |-> c, d |-> 0, i |-> 0,
                          ret |-> validate_food(database, rules,
                                                c.food_id, c.disease)]
               ELSE [pc |-> "loop", call |-> c, d |-> 1, i |-> 0,
                     ret |-> [op |-> "none"]]]
        /\ UNCHANGED <<stored, call, ret, lookups>>

\* one `if` of the chain of validate_food
CheckStep ==
    \E t \in Callers :
        /\ threads[t].pc = "check"
        /\ LET c == threads[t].call
               checks == DiseaseChecks(database[c.food_id],
                                       rules[c.disease], c.disease)
               i == threads[t].i
               frame == frames[Frame(t)]
           IN  /\ i <= Len(checks)
               /\ frames' = [frames EXCEPT ![Frame(t)] =
                      IF checks[i].hit
                      THEN [frame EXCEPT
                               !.violations = Append(@, checks[i].msg),
                               !.score = @ - checks[i].penalty]
                      ELSE frame]
               /\ threads' = [threads EXCEPT ![t].i = i + 1]
        /\ UNCHANGED <<stored, call, ret, lookups>>

\* the status and the return of validate_food, lines 329-344
FinishValidate ==
    \E t \in Callers :
        /\ threads[t].pc = "check"
        /\ LET c == threads[t].call
               checks == DiseaseChecks(database[c.food_id],
                                       rules[c.disease], c.disease)
               frame == frames[Frame(t)]
           IN  /\ threads[t].i > Len(checks)
               /\ threads' = [threads EXCEPT ![t].pc = "done", ![t].ret =
                      [status |-> StatusOf(frame.score),
                       reason |-> IF frame.violations # <<>>
                                  THEN frame.violations[1]
                                  ELSE "Meets dietary requirements",
                       score |-> Max(0, frame.score),
                       violations |-> frame.violations]]
        /\ UNCHANGED <<stored, call, ret, lookups, frames>>

\* the head of a pass of the outer loop of get_sorted_foods: the three
\* lists are bound to fresh empty lists, lines 354-356
OpenDisease ==
    \E t \in Callers :
        /\ threads[t].pc = "loop"
        /\ threads[t].d <= Len(threads[t].call.diseases)
        /\ threads[t].i = 0
        /\ frames' = [frames EXCEPT ![Frame(t)] =
               [@ EXCEPT !.safe = <<>>, !.caution = <<>>, !.avoid = <<>>]]
        /\ threads' = [threads EXCEPT ![t].i = 1]
        /\ UNCHANGED <<stored, call, ret, lookups>>

\* one pass of the inner loop of get_sorted_foods, lines 358-374
Pass ==
    \E t \in Callers :
        /\ threads[t].pc = "loop"
        /\ LET c == threads[t].call
               ids == CatalogOrder(database)
               d == threads[t].d
               i == threads[t].i
               frame == frames[Frame(t)]
           IN  /\ d <= Len(c.diseases)
               /\ i >= 1
               /\ i <= Len(ids)
               /\ LET food_info == FoodInfo(database, rules, ids[i],
                                            c.diseases[d])
                      status == validate_food(database, rules, ids[i],
                                              c.diseases[d]).status
                  IN  frames' = [frames EXCEPT ![Frame(t)] =
                          IF status = "safe"
                          THEN [frame EXCEPT !.safe = Append(@, food_info)]
                          ELSE IF status = "caution"
                          THEN [frame EXCEPT
                                   !.caution = Append(@, food_info)]
                          ELSE [frame EXCEPT
                                   !.avoid = Append(@, food_info)]]
               /\ threads' = [threads EXCEPT ![t].i = i + 1]
        /\ UNCHANGED <<stored, call, ret, lookups>>

\* the three sorts, which sort the lists in place, and
\* result[disease] = {...}, lines 376-385
CloseDisease ==
    \E t \in Callers :
        /\ threads[t].pc = "loop"
        /\ LET c == threads[t].call
               d == threads[t].d
               frame == frames[Frame(t)]
           IN  /\ d <= Len(c.diseases)
               /\ threads[t].i > Len(CatalogOrder(database))
               /\ frames' = [frames EXCEPT ![Frame(t)] =
                      [frame EXCEPT
                          !.result = Append(@,
                              [disease |-> c.diseases[d],
                               foods |->
                                   [safe |-> SortByScoreDesc(frame.safe),
                                    caution |->
                                        SortByScoreDesc(frame.caution),
                                    avoid |->
                                        SortByScoreDesc(frame.avoid)]]),
                          !.safe = SortByScoreDesc(frame.safe),
                          !.caution = SortByScoreDesc(frame.caution),
                          !.avoid = SortByScoreDesc(frame.avoid)]]
               /\ threads' = [threads EXCEPT ![t].d = d + 1, ![t].i = 0]
        /\ UNCHANGED <<stored, call, ret, lookups>>

\* the dict that the entries of result make: a later entry for a disease
\* replaces an earlier one
ResultDict(result) ==
    [disease \in {result[k].disease : k \in 1..Len(result)} |->
        LET last == CHOOSE k \in 1..Len(result) :
                        /\ result[k].disease = disease
                        /\ \A j \in (k + 1)..Len(result) :
                               result[j].disease # disease
        IN  result[last].foods]

\* "return result" of get_sorted_foods; recommend_foods goes on to cut the
\* safe list and count, lines 395-409
ReturnSorted ==
    \E t \in Callers :
        /\ threads[t].pc = "loop"
        /\ LET c == threads[t].call
               sorted_foods == ResultDict(frames[Frame(t)].result)
           IN  /\ threads[t].d > Len(c.diseases)
               /\ threads' = [threads EXCEPT ![t].pc = "done", ![t].ret =
                      IF c.op = "get_sorted_foods" THEN sorted_foods
                      ELSE [disease \in DOMAIN sorted_foods |->
                               LET foods == sorted_foods[disease]
                                   safe == TopSafe(foods.safe, c.max_items)
                               IN  [safe_foods |-> safe,
                                    count |-> Len(safe),
                                    all_safe |-> Len(foods.safe),
                                    total_caution |-> Len(foods.caution),
                                    total_avoid |-> Len(foods.avoid)]]]
        /\ UNCHANGED <<stored, call, ret, lookups, frames>>

\* the caller has taken the result and is free to make the next call
EndCall ==
    \E t \in Callers :
        /\ threads[t].pc = "done"
        /\ threads' = [threads EXCEPT ![t] = IdleThread]
        /\ UNCHANGED <<stored, call, ret, lookups, frames>>

NextConcurrent ==
    \/ BeginCall \/ CheckStep \/ FinishValidate \/ OpenDisease \/ Pass
    \/ CloseDisease \/ ReturnSorted \/ EndCall

SpecConcurrent == Init /\ [][NextConcurrent]_vars

\* the catalog entries of which one is malformed in turn: the first, one
\* in the middle and the last of the catalog
MalformedIds == {"biryani", "rice", "bottle"}

\* the record without one of its fields
Without(food, key) == [k \in DOMAIN food \ {key} |-> food[k]]

\* the catalogs in which one record lacks one of its fields
MalformedCatalogs ==
    {[FOOD_DATABASE EXCEPT ![food_id] = Without(@, key)] :
         food_id \in MalformedIds, key \in DOMAIN FOOD_DATABASE["bottle"]}

\* a validator whose catalog was handed one malformed record
InitMalformed ==
    /\ database \in MalformedCatalogs
    /\ rules = DISEASE_RULES
    /\ call = [op |-> "none"]
    /\ ret = [op |-> "none"]
    /\ food_recommendations = {}
    /\ food_allergens = {}
    /\ lookups = 0
    /\ threads = IdleThreads
    /\ frames = FreshFrames
    /\ environment = DefaultEnvironment
    /\ db_ops = DatabaseOperations(DefaultEnvironment)
    /\ session = FreshSession

NextMalformed == ValidateFood \/ GetSortedFoods \/ Return

SpecMalformed == InitMalformed /\ [][NextMalformed]_vars

\* how far on either side of a threshold the probed values reach
ProbeSpread == 1

Around(x) == (x - ProbeSpread)..(x + ProbeSpread)

PurineLevels == {"low", "medium", "high", "very_high"}

\* nutrient profiles around the thresholds of the rule table: the record
\* of rice with the fields one branch of validate_food reads set to values
\* just under, on and just over the limits (fiber_g and fat_g in tenths of
\* a gram)
Profiles ==
    LET base == FOOD_DATABASE["rice"]
        r == DISEASE_RULES
    IN  {[base EXCEPT !.sugar_g = a, !.carbs_g = b, !.fiber_g = c,
                      !.calories = d] :
             a \in Around(r.diabetes.max_sugar_g),
             b \in Around(r.diabetes.max_carbs_g),
             c \in Around(10 * r.diabetes.min_fiber_g),
             d \in Around(r.diabetes.max_calories)}
        \cup {[base EXCEPT !.gluten = a, !.sodium_mg = b, !.fiber_g = c] :
                 a \in BOOLEAN,
                 b \in Around(r.celiac.max_sodium_mg),
                 c \in Around(10 * r.celiac.min_fiber_g)}
        \cup {[base EXCEPT !.sodium_mg = a, !.calories = b, !.fat_g = c] :
                 a \in Around(r.hypertension.max_sodium_mg),
                 b \in Around(r.hypertension.max_calories),
                 c \in Around(10 * r.hypertension.max_fat_g)}
        \cup {[base EXCEPT !.lactose = a] : a \in BOOLEAN}
        \cup {[base EXCEPT !.purine_level = a, !.sodium_mg = b] :
                 a \in PurineLevels, b \in Around(r.gout.max_sodium_mg)}
        \cup {[base EXCEPT !.sodium_mg = a, !.protein_g = b] :
                 a \in Around(r.kidney.max_sodium_mg),
                 b \in Around(r.kidney.max_protein_g)}
        \cup {[base EXCEPT !.fiber_g = a, !.fat_g = b] :
                 a \in Around(10 * r.ibs.min_fiber_g),
                 b \in Around(10 * r.ibs.max_fat_g)}

\* the catalogs in which the record of rice carries one of the profiles
ProfileCatalogs ==
    {[FOOD_DATABASE EXCEPT !["rice"] = profile] : profile \in Profiles}

\* a validator whose catalog holds one of the profiles
InitProfiles ==
    /\ database \in ProfileCatalogs
    /\ rules = DISEASE_RULES
    /\ call = [op |-> "none"]
    /\ ret = [op |-> "none"]
    /\ food_recommendations = {}
    /\ food_allergens = {}
    /\ lookups = 0
    /\ threads = IdleThreads
    /\ frames = FreshFrames
    /\ environment = DefaultEnvironment
    /\ db_ops = DatabaseOperations(DefaultEnvironment)
    /\ session = FreshSession

NextProfiles == ValidateFood \/ Return

SpecProfiles == InitProfiles /\ [][NextProfiles]_vars

\* the API process with its recommendations stored
InitApi ==
    /\ database = FOOD_DATABASE
    /\ rules = DISEASE_RULES
    /\ call = [op |-> "none"]
    /\ ret = [op |-> "none"]
    /\ food_recommendations \in RecommendationTables
    /\ food_allergens = {}
    /\ lookups = 0
    /\ threads = IdleThreads
    /\ frames = FreshFrames
    /\ environment = DefaultEnvironment
    /\ db_ops = DatabaseOperations(DefaultEnvironment)
    /\ session = FreshSession

\* POST /api/meal-plan
GenerateMealPlan ==
    \E data \in MealPlanRequests :
        /\ call.op = "none"
        /\ LET condition_ids ==
                IF "health_conditions" \in DOMAIN data
                THEN ConditionIds(data.health_conditions) ELSE {}
           IN  \E safe_foods \in OrderedByScoreDesc(
                       SafeFoodRows(food_recommendations, condition_ids)) :
                   /\ call' = [op |-> "generate_meal_plan", data |-> data]
                   /\ ret' = MealPlanResponse(data, safe_foods)
                   /\ lookups' = MealPlanLookups(data)
                   /\ UNCHANGED <<stored, callers>>

\* POST /api/food-recommendations
GetFoodRecommendations ==
    \E data \in RecommendationRequests :
        /\ call.op = "none"
        /\ \E recommendations \in OrderedByScoreThenName(
                   RecommendationRows(food_recommendations,
                                      RequestConditionIds(data))) :
               /\ call' = [op |-> "get_food_recommendations",
                           data |-> data]
               /\ ret' = RecommendationsResponse(data, recommendations)
               /\ lookups' = RecommendationLookups(data)
               /\ UNCHANGED <<stored, callers>>

NextApi == GenerateMealPlan \/ GetFoodRecommendations \/ Return

SpecApi == InitApi /\ [][NextApi]_vars

\* the API process with its allergen table stored
InitMenu ==
    /\ database = FOOD_DATABASE
    /\ rules = DISEASE_RULES
    /\ call = [op |-> "none"]
    /\ ret = [op |-> "none"]
    /\ food_recommendations = {}
    /\ food_allergens \in AllergenTables
    /\ lookups = 0
    /\ threads = IdleThreads
    /\ frames = FreshFrames
    /\ environment = DefaultEnvironment
    /\ db_ops = DatabaseOperations(DefaultEnvironment)
    /\ session = FreshSession

\* GET /api/foods
GetFoods ==
    \E args \in QueryArgs :
        /\ call.op = "none"
        /\ call' = [op |-> "get_foods", args |-> args]
        /\ ret' = get_foods(args)
        /\ lookups' = 1
        /\ UNCHANGED <<stored, callers>>

\* POST /api/allergen-filter
FilterByAllergens ==
    \E data \in AllergenRequests, args \in QueryArgs :
        /\ call.op = "none"
        /\ call' = [op |-> "filter_by_allergens", data |-> data,
                    args |-> args]
        /\ ret' = filter_by_allergens(food_allergens, data, args)
        /\ lookups' = AllergenLookups(data)
        /\ UNCHANGED <<stored, callers>>

\* POST /api/compare-foods
CompareFoods ==
    \E data \in CompareRequests :
        /\ call.op = "none"
        /\ call' = [op |-> "compare_foods", data |-> data]
        /\ ret' = compare_foods(data)
        /\ lookups' = CompareLookups(data)
        /\ UNCHANGED <<stored, callers>>

NextMenu == GetFoods \/ FilterByAllergens \/ CompareFoods \/ Return

SpecMenu == InitMenu /\ [][NextMenu]_vars

\* a process that has just built its DatabaseOperations
InitDb ==
    /\ database = FOOD_DATABASE
    /\ rules = DISEASE_RULES
    /\ call = [op |-> "none"]
    /\ ret = [op |-> "none"]
    /\ food_recommendations = {}
    /\ food_allergens = {}
    /\ lookups = 0
    /\ threads = IdleThreads
    /\ frames = FreshFrames
    /\ environment \in Environments
    /\ db_ops = DatabaseOperations(environment)
    /\ session = FreshSession

\* what the calls of a DatabaseOperations instance leave alone
untouched == <<database, rules, food_recommendations, food_allergens,
               lookups, callers, environment, db_ops>>

ExecuteQuery ==
    \E query \in Selects :
        /\ ~IsRaised(db_ops)
        /\ call.op = "none"
        /\ call' = [op |-> "execute_query", query |-> query]
        /\ ret' = execute_query(db_ops, session, query)
        /\ UNCHANGED <<untouched, session>>

ExecuteUpdate ==
    \E query \in Updates :
        /\ ~IsRaised(db_ops)
        /\ call.op = "none"
        /\ session.committed + session.pending < MaxUpdates
        /\ call' = [op |-> "execute_update", query |-> query]
        /\ ret' = execute_update(db_ops, session, query)
        /\ session' = SessionAfterUpdate(db_ops, session, query)
        /\ UNCHANGED untouched

Close ==
    /\ ~IsRaised(db_ops)
    /\ call.op = "none"
    /\ session.open
    /\ call' = [op |-> "close"]
    /\ ret' = [result |-> "None"]
    /\ session' = SessionAfterClose(db_ops, session)
    /\ UNCHANGED untouched

NextDb == ExecuteQuery \/ ExecuteUpdate \/ Close \/ Return

SpecDb == InitDb /\ [][NextDb]_vars

(***************************************************************************)
(* Properties of validate_food.                                            *)
(***************************************************************************)
KnownCall ==
    /\ call.op = "validate_food"
    /\ call.food_id \in DOMAIN database
    /\ call.disease \in DOMAIN rules

\* C1: whatever the food and condition identifiers, known or unknown, the
\* score returned by validate_food is an integer between 0 and 100.
C1_ScoreInRange ==
    call.op = "validate_food" => ret.score \in 0..100

\* the lowest score of the catalog (hamburger for celiac) and an unknown
\* identifier have both been returned in range
C1_Witness ==
    /\ call.op = "validate_food"
    /\ call.food_id = "hamburger"
    /\ call.disease = "celiac"
    /\ ret.score = 35
    /\ Len(ret.violations) = 3

\* C2: for a catalog food and a condition of the rule table the status is
\* fixed by the returned score: safe exactly from 80 up, caution exactly
\* from 50 to 79, avoid exactly below 50.
C2_StatusFromScore ==
    KnownCall =>
        /\ ret.status = "safe" <=> ret.score >= 80
        /\ ret.status = "caution" <=> (50 <= ret.score /\ ret.score < 80)
        /\ ret.status = "avoid" <=> ret.score < 50

\* a score on the lower edge of caution: pizza for lactose scores 50
C2_Witness ==
    /\ KnownCall
    /\ call.food_id = "pizza"
    /\ call.disease = "lactose"
    /\ ret.score = 50
    /\ ret.status = "caution"

\* C3: an unknown food identifier gives status unknown, score 0 and the
\* reason "Food not found" whether or not the condition is known; a known
\* food with an unknown condition gives status unknown, score 0 and the
\* reason "Disease not found".
C3_UnknownLookup ==
    call.op = "validate_food" =>
        /\ call.food_id \notin DOMAIN database =>
               ret = [status |-> "unknown", reason |-> "Food not found",
                      score |-> 0]
        /\ (call.food_id \in DOMAIN database
            /\ call.disease \notin DOMAIN rules) =>
               ret = [status |-> "unknown", reason |-> "Disease not found",
                      score |-> 0]

\* both identifiers unknown: the food lookup is the one reported
C3_Witness ==
    /\ call.op = "validate_food"
    /\ call.food_id = UnknownFood
    /\ call.disease = UnknownDisease
    /\ ret.status = "unknown"
    /\ ret.reason = "Food not found"

\* the penalty a food incurs for a condition, from the penalty list of the
\* design: fiber_g and fat_g of the catalog are in tenths of a gram
Pen(cond, penalty) == IF cond THEN penalty ELSE 0

ListedPenalty(food, disease) ==
    CASE disease = "diabetes" ->
           Pen(food.sugar_g > 15, 15) + Pen(food.carbs_g > 50, 20)
           + Pen(food.fiber_g < 20, 10) + Pen(food.calories > 400, 5)
      [] disease = "celiac" ->
           Pen(food.gluten, 50) + Pen(food.sodium_mg > 800, 10)
           + Pen(food.fiber_g < 30, 5)
      [] disease = "hypertension" ->
           Pen(food.sodium_mg > 600, 25) + Pen(food.calories > 350, 10)
           + Pen(food.fat_g > 150, 15)
      [] disease = "lactose" -> Pen(food.lactose, 50)
      [] disease = "gout" ->
           Pen(food.purine_level \in {"high", "very_high"}, 30)
           + Pen(food.sodium_mg > 700, 10)
      [] disease = "kidney" ->
           Pen(food.sodium_mg > 400, 25) + Pen(food.protein_g > 25, 20)
      [] disease = "ibs" ->
           Pen(food.fiber_g < 50, 10) + Pen(food.fat_g > 100, 20)

\* C4: for a known food and a known condition the score is 100 less the
\* listed penalties of the predicates the food violates, floored at 0; a
\* gluten food over the sodium maximum with enough fiber scores 40 for
\* celiac, and a high-purine food within the sodium maximum scores 70 for
\* gout with exactly one violation.
C4_ScoreIsPenaltySum ==
    KnownCall =>
        LET food == database[call.food_id]
        IN  /\ ret.score = Max(0, 100 - ListedPenalty(food, call.disease))
            /\ (call.disease = "celiac" /\ food.gluten
                /\ food.sodium_mg > 800 /\ food.fiber_g >= 30)
                   => ret.score = 40
            /\ (call.disease = "gout"
                /\ food.purine_level \in {"high", "very_high"}
                /\ food.sodium_mg <= 700)
                   => (ret.score = 70 /\ Len(ret.violations) = 1)

\* steak for gout: very_high purine, sodium exactly on the maximum of 700
C4_Witness ==
    /\ KnownCall
    /\ call.food_id = "steak"
    /\ call.disease = "gout"
    /\ database["steak"].sodium_mg = rules["gout"].max_sodium_mg
    /\ ret.score = 70
    /\ Len(ret.violations) = 1

(***************************************************************************)
(* Properties of get_sorted_foods and recommend_foods.                     *)
(***************************************************************************)
\* the number of entries of a bucket that carry the food identifier
Occurrences(bucket, food_id) ==
    Cardinality({i \in 1..Len(bucket) : bucket[i].id = food_id})

\* position of a food in the catalog's iteration order
CatalogIndex(food_id) ==
    CHOOSE i \in 1..Len(FoodOrder) : FoodOrder[i] = food_id

BucketNames == {"safe", "caution", "avoid"}

\* C5: for every requested condition each catalog food is in exactly one of
\* the safe, caution and avoid buckets, once, and the buckets hold nothing
\* but catalog foods.
C5_BucketsPartition ==
    call.op = "get_sorted_foods" =>
        /\ DOMAIN ret = Range(call.diseases)
        /\ \A d \in DOMAIN ret :
            /\ \A food_id \in DOMAIN database :
                   Occurrences(ret[d].safe, food_id)
                   + Occurrences(ret[d].caution, food_id)
                   + Occurrences(ret[d].avoid, food_id) = 1
            /\ \A b \in BucketNames :
                   \A i \in 1..Len(ret[d][b]) :
                       ret[d][b][i].id \in DOMAIN database

\* two conditions requested, with foods in the avoid bucket of one and in
\* the caution bucket of the other
C5_Witness ==
    /\ call.op = "get_sorted_foods"
    /\ call.diseases = <<"celiac", "diabetes">>
    /\ Len(ret["celiac"].safe) = 9
    /\ Len(ret["celiac"].avoid) = 4
    /\ Len(ret["diabetes"].safe) = 11
    /\ Len(ret["diabetes"].caution) = 2

\* C6: every bucket is in descending order of score, and entries of equal
\* score stand in the order their foods have in the catalog.
C6_SortedStable ==
    call.op = "get_sorted_foods" =>
        \A d \in DOMAIN ret : \A b \in BucketNames :
            \A i, j \in 1..Len(ret[d][b]) :
                i < j =>
                    /\ ret[d][b][i].score >= ret[d][b][j].score
                    /\ ret[d][b][i].score = ret[d][b][j].score =>
                           CatalogIndex(ret[d][b][i].id)
                               < CatalogIndex(ret[d][b][j].id)

\* the safe bucket of diabetes: lentils (catalog place 10) leads with 100,
\* hamburger follows with 95, then the run of foods tied at 90 in catalog
\* order
C6_Witness ==
    /\ call.op = "get_sorted_foods"
    /\ call.diseases = <<"diabetes">>
    /\ ret["diabetes"].safe[1].id = "lentils"
    /\ ret["diabetes"].safe[2].id = "hamburger"
    /\ ret["diabetes"].safe[3].id = "tandoori"
    /\ ret["diabetes"].safe[3].score = 90
    /\ ret["diabetes"].safe[4].id = "salmon"
    /\ ret["diabetes"].safe[4].score = 90

\* C7: a requested condition that is not in the rule table gets an empty
\* result set: its safe, caution and avoid buckets hold no food.
C7_UnknownConditionEmpty ==
    call.op = "get_sorted_foods" =>
        \A d \in DOMAIN ret :
            d \notin DOMAIN rules =>
                /\ ret[d].safe = <<>>
                /\ ret[d].caution = <<>>
                /\ ret[d].avoid = <<>>

\* C8: for max_items k >= 0 the safe_foods list of every condition is the
\* first k entries, in order, of the safe bucket get_sorted_foods returns
\* for it, min(k, size of the bucket) long, and count is that length.
C8_TopSafeIsPrefix ==
    (call.op = "recommend_foods" /\ call.max_items >= 0) =>
        LET sorted_foods == get_sorted_foods(database, rules, call.diseases)
        IN  /\ DOMAIN ret = DOMAIN sorted_foods
            /\ \A d \in DOMAIN ret :
                /\ Len(ret[d].safe_foods)
                       = Min(call.max_items, Len(sorted_foods[d].safe))
                /\ \A i \in 1..Len(ret[d].safe_foods) :
                       ret[d].safe_foods[i] = sorted_foods[d].safe[i]
                /\ ret[d].count = Len(ret[d].safe_foods)

\* max_items 7 cuts the eleven safe foods of diabetes down to seven and
\* leaves the five safe foods of kidney whole
C8_Witness ==
    /\ call.op = "recommend_foods"
    /\ call.diseases = <<"kidney", "diabetes">>
    /\ call.max_items = 7
    /\ ret["kidney"].count = 5
    /\ ret["diabetes"].count = 7
    /\ ret["diabetes"].all_safe = 11

\* the number of catalog foods whose verdict for the condition has the status
VerdictCount(disease, status) ==
    Cardinality({food_id \in DOMAIN database :
        validate_food(database, rules, food_id, disease).status = status})

\* C9: the summary counts of recommend_foods follow the four mutually
\* exclusive verdicts safe, caution, avoid and unknown: each count is the
\* size of the full bucket of its verdict, foods with an unknown verdict are
\* counted in none of safe, caution and avoid, and the four sizes add up to
\* the size of the catalog.
C9_CountsByVerdict ==
    call.op = "recommend_foods" =>
        \A d \in DOMAIN ret :
            /\ ret[d].all_safe = VerdictCount(d, "safe")
            /\ ret[d].total_caution = VerdictCount(d, "caution")
            /\ ret[d].total_avoid = VerdictCount(d, "avoid")
            /\ ret[d].all_safe + ret[d].total_caution + ret[d].total_avoid
               + VerdictCount(d, "unknown") = Cardinality(DOMAIN database)

(***************************************************************************)
(* Properties of generate_meal_plan.                                       *)
(***************************************************************************)
\* C10: a plan produced for a request with meal_count >= 1 has exactly
\* min(meal_count, 3) slots, labelled Breakfast, Lunch, Dinner in that
\* order from the first; a request for 5 meals yields 3 slots.
C10_SlotsCapped ==
    (/\ call.op = "generate_meal_plan"
     /\ ret.success
     /\ "meal_count" \in DOMAIN call.data
     /\ call.data.meal_count >= 1) =>
        /\ Len(ret.data) = Min(call.data.meal_count, 3)
        /\ \A i \in 1..Len(ret.data) :
               ret.data[i].meal_type = <<"Breakfast", "Lunch", "Dinner">>[i]
        /\ call.data.meal_count = 5 => Len(ret.data) = 3

\* five meals asked for, three slots returned
C10_Witness ==
    /\ call.op = "generate_meal_plan"
    /\ ret.success
    /\ "meal_count" \in DOMAIN call.data
    /\ call.data.meal_count = 5
    /\ Len(ret.data) = 3
    /\ ret.data[3].meal_type = "Dinner"
    /\ ret.data[1].foods # <<>>

\* the health_conditions rows the request of the current call resolves to
RequestedConditionIds ==
    IF "health_conditions" \in DOMAIN call.data
    THEN ConditionIds(call.data.health_conditions) ELSE {}

\* food_recommendations lists the food as recommended for the condition
RecommendedFor(food_id, condition_id) ==
    \E fr \in food_recommendations :
        /\ fr.food_id = food_id
        /\ fr.condition_id = condition_id
        /\ fr.recommendation_type \in {"Highly Recommended", "Recommended"}

\* C11: every food placed in a slot of a meal plan is recommended for
\* every one of the requested conditions, never for only some of them.
C11_SafeForAllConditions ==
    (call.op = "generate_meal_plan" /\ ret.success) =>
        \A i \in 1..Len(ret.data) :
            \A k \in 1..Len(ret.data[i].foods) :
                \A c \in RequestedConditionIds :
                    RecommendedFor(ret.data[i].foods[k].id, c)

\* the categories a role draws from
RoleCategories ==
    Range(protein_categories) \cup Range(side_categories)
        \cup Range(drink_categories)

\* the foods that pass the safety filter for the request of the call
EligibleRows == SafeFoodRows(food_recommendations, RequestedConditionIds)

\* a request that names a known condition and asks for one meal or more
ValidPlanCall ==
    /\ call.op = "generate_meal_plan"
    /\ RequestedConditionIds # {}
    /\ MealCountOf(call.data) >= 1

\* every slot of the plan is there, with no food and no calories
AllSlotsEmpty ==
    /\ ret.success
    /\ Len(ret.data) = Min(MealCountOf(call.data), 3)
    /\ \A i \in 1..Len(ret.data) :
           /\ ret.data[i].foods = <<>>
           /\ ret.data[i].total_calories = 0

\* C12 as stated: for a valid request with meal_count >= 1, when no food is
\* eligible in any role the plan still has its min(meal_count, 3) slots,
\* each with an empty food list and total_calories 0, also when no food at
\* all passes the safety filter.
C12_EmptySlotsAlways ==
    (/\ ValidPlanCall
     /\ \A row \in EligibleRows : row.category \notin RoleCategories) =>
        AllSlotsEmpty

\* C12 amended: for a valid request with meal_count >= 1, when some food
\* passes the safety filter and every such food is of a category outside
\* the three roles, the plan has its min(meal_count, 3) slots, each with an
\* empty food list and total_calories 0; when no food passes the filter the
\* answer is success false with a message and no plan.
C12_EmptySlotsOutsideRoles ==
    ValidPlanCall =>
        /\ (/\ EligibleRows # {}
            /\ \A row \in EligibleRows : row.category \notin RoleCategories)
               => AllSlotsEmpty
        /\ EligibleRows = {} =>
               /\ ~ret.success
               /\ ret.code = 200
               /\ ret.message =
                      "No safe foods found for the provided conditions"
               /\ "data" \notin DOMAIN ret

\* only the dessert is eligible: three empty slots
C12_Witness ==
    /\ ValidPlanCall
    /\ {row.category : row \in EligibleRows} = {"Dessert"}
    /\ MealCountOf(call.data) = 5
    /\ ret.success
    /\ Len(ret.data) = 3
    /\ ret.data[3].foods = <<>>

\* C13: a meal plan request whose meal_count is 0 or negative is rejected
\* as invalid input (status 400, no success); it never gets a successful
\* answer with a plan.
C13_NonPositiveRejected ==
    (/\ call.op = "generate_meal_plan"
     /\ "meal_count" \in DOMAIN call.data
     /\ call.data.meal_count <= 0) =>
        /\ ret.code = 400
        /\ ~ret.success

(***************************************************************************)
(* Properties of filter_by_allergens.                                      *)
(***************************************************************************)
\* the call is filter_by_allergens with a list of n excluded allergens,
\* n in the set lengths
FilterCall(lengths) ==
    /\ call.op = "filter_by_allergens"
    /\ "exclude_allergens" \in DOMAIN call.data
    /\ call.data.exclude_allergens.type = "list"
    /\ Len(call.data.exclude_allergens.items) \in lengths

\* the allergen tags of a food
TagsOf(food_id) ==
    {fa.allergen_name : fa \in {r \in food_allergens : r.food_id = food_id}}

\* the ids of the foods a response lists, in the order it lists them
ReturnedIds ==
    IF ret.success THEN [i \in 1..Len(ret.data) |-> ret.data[i].id]
    ELSE <<>>

\* C14: for every non-empty list of excluded allergen tags,
\* filter_by_allergens returns exactly the catalog foods whose allergen
\* tags have none in common with the list: no returned food carries an
\* excluded allergen, and no food free of them all is left out.
C14_ExactlyAllergenFree ==
    FilterCall(1..MaxAllergens) =>
        LET excluded == Range(call.data.exclude_allergens.items)
        IN  /\ \A i \in 1..Len(ReturnedIds) :
                   TagsOf(ReturnedIds[i]) \cap excluded = {}
            /\ \A fi \in food_items :
                   TagsOf(fi.food_id) \cap excluded = {}
                       => fi.food_id \in Range(ReturnedIds)
            /\ Range(ReturnedIds) \subseteq {fi.food_id : fi \in food_items}
            /\ Cardinality(Range(ReturnedIds)) = Len(ReturnedIds)

\* two tags excluded, the second of them carried by a food that the first
\* would let through; some foods are dropped and some are returned
C14_Witness ==
    /\ FilterCall({2})
    /\ call.data.exclude_allergens.items = <<"Fish", "Dairy">>
    /\ TagsOf(1) = {"Dairy"}
    /\ TagsOf(2) = {"Fish"}
    /\ ret.success
    /\ 1 \notin Range(ReturnedIds)
    /\ 2 \notin Range(ReturnedIds)
    /\ 4 \in Range(ReturnedIds)

\* the ids of the whole catalog in the order the catalog is listed
CatalogListing ==
    LET foods == OrderedByName(food_items)
    IN  [i \in 1..Len(foods) |-> foods[i].food_id]

\* C15: filter_by_allergens called with an empty excluded list returns
\* every food of the catalog, unfiltered, in the order of the catalog, and
\* reports no error.
C15_EmptyListReturnsCatalog ==
    FilterCall({0}) =>
        /\ ret.code = 200
        /\ ret.success
        /\ ReturnedIds = CatalogListing

(***************************************************************************)
(* Properties of compare_foods.                                            *)
(***************************************************************************)
\* the call is compare_foods with a food_ids entry in its body
CompareCall ==
    /\ call.op = "compare_foods"
    /\ "food_ids" \in DOMAIN call.data

\* the ids of food_items
CatalogIds == {fi.food_id : fi \in food_items}

\* the nutrition_facts column behind each field of the difference map
NutrientColumn ==
    [calories |-> "calories", protein |-> "protein_g", carbs |-> "carbs_g",
     fat |-> "fat_g", sodium |-> "sodium_mg", fiber |-> "fiber_g",
     sugar |-> "sugar_g", saturated_fat |-> "saturated_fat_g"]

\* the stored value of a column for a food of the catalog
Stored(food_id, column) ==
    (CHOOSE fi \in food_items : fi.food_id = food_id)[column]

\* C16: for two food identifiers [a, b] that both exist, compare_foods
\* returns a difference map whose every nutrient field is b's value minus
\* a's value, signed; comparing [b, a] negates every field.
C16_SecondMinusFirst ==
    (/\ CompareCall
     /\ IsPair(call.data.food_ids)
     /\ Range(call.data.food_ids.items) \subseteq CatalogIds) =>
        LET a == call.data.food_ids.items[1]
            b == call.data.food_ids.items[2]
            opposite == compare_foods([food_ids |-> JsonList(<<b, a>>)])
        IN  /\ ret.success
            /\ DOMAIN ret.data.differences = DOMAIN NutrientColumn
            /\ \A key \in DOMAIN NutrientColumn :
                   /\ ret.data.differences[key] =
                          Stored(b, NutrientColumn[key])
                              - Stored(a, NutrientColumn[key])
                   /\ opposite.data.differences[key] =
                          0 - ret.data.differences[key]

\* salmon against cake: more calories, less protein
C16_Witness ==
    /\ CompareCall
    /\ call.data.food_ids = JsonList(<<2, 5>>)
    /\ ret.success
    /\ ret.data.differences.calories = 30
    /\ ret.data.differences.protein = -36

\* C17: compare_foods fails with a not-found error (status 404), and
\* returns no difference map, whenever the first or the second of the two
\* identifiers is not in the catalog.
C17_NotFound ==
    (/\ CompareCall
     /\ IsPair(call.data.food_ids)
     /\ \E i \in 1..2 : call.data.food_ids.items[i] \notin CatalogIds) =>
        /\ ret.code = 404
        /\ ~ret.success
        /\ "data" \notin DOMAIN ret

\* the first identifier is in the catalog, the second is not
C17_Witness ==
    /\ CompareCall
    /\ call.data.food_ids = JsonList(<<1, 99>>)
    /\ ret.code = 404
    /\ ret.message = "Food with ID 99 not found"
    /\ lookups = 2

\* C18: compare_foods given a food_ids that is not a list, or a list of 0,
\* 1, 3 or more identifiers, is rejected as invalid input (status 400)
\* before any lookup in the catalog is made.
C18_NotTwoRejected ==
    (/\ CompareCall
     /\ \/ call.data.food_ids.type # "list"
        \/ Len(call.data.food_ids.items) # 2) =>
        /\ ret.code = 400
        /\ ~ret.success
        /\ lookups = 0
    /\ threads = IdleThreads
    /\ frames = FreshFrames

\* three identifiers, all of them in the catalog
C18_Witness ==
    /\ CompareCall
    /\ call.data.food_ids = JsonList(<<1, 2, 5>>)
    /\ ret.code = 400
    /\ ret.message = "Exactly two food IDs required"
    /\ lookups = 0
    /\ threads = IdleThreads
    /\ frames = FreshFrames

(***************************************************************************)
(* Properties of the validator as a whole.                                 *)
(***************************************************************************)
\* C19: during get_sorted_foods one malformed catalog record, such as one
\* lacking a nutrient field that the rule of the condition reads, does not
\* abort the batch: no exception is raised and every catalog food,
\* the malformed one included, is filed for every disease of the list.
C19_MalformedDoesNotAbort ==
    call.op = "get_sorted_foods" =>
        /\ ~IsRaised(ret)
        /\ \A d \in Range(call.diseases) :
               \A food_id \in DOMAIN database :
                   \E b \in BucketNames :
                       \E i \in 1..Len(ret[d][b]) : ret[d][b][i].id = food_id

\* C20: validate_food, get_sorted_foods and recommend_foods have no side
\* effects: after any sequence of calls with any arguments the food
\* catalog is still FOOD_DATABASE and the rule table still DISEASE_RULES.
C20_NoSideEffects ==
    /\ database = FOOD_DATABASE
    /\ rules = DISEASE_RULES

\* recommend_foods, which runs get_sorted_foods and through it
\* validate_food over the whole catalog, has returned; catalog and rule
\* table are as they were
C20_Witness ==
    /\ call.op = "recommend_foods"
    /\ call.diseases = <<"diabetes", "celiac">>
    /\ ret["diabetes"].count > 0
    /\ ret["celiac"].total_avoid > 0
    /\ database = FOOD_DATABASE
    /\ rules = DISEASE_RULES

(***************************************************************************)
(* Properties of concurrent callers.                                       *)
(***************************************************************************)
\* what a call returns when it runs alone
Alone(c) ==
    CASE c.op = "validate_food" ->
           validate_food(database, rules, c.food_id, c.disease)
      [] c.op = "get_sorted_foods" ->
           get_sorted_foods(database, rules, c.diseases)
      [] c.op = "recommend_foods" ->
           recommend_foods(database, rules, c.diseases, c.max_items)

\* C21: when several callers run validate_food, get_sorted_foods or
\* recommend_foods at the same time on one catalog and rule table, under
\* every interleaving each call returns what it returns when run alone,
\* and two calls with the same inputs return the same result.
C21_SameAsAlone ==
    /\ \A t \in Callers :
           threads[t].pc = "done" => threads[t].ret = Alone(threads[t].call)
    /\ \A t, u \in Callers :
           (/\ threads[t].pc = "done"
            /\ threads[u].pc = "done"
            /\ threads[t].call = threads[u].call)
               => threads[t].ret = threads[u].ret

\* one caller has its verdict on the pizza while another, which began the
\* same call, is between two tests of the chain
C21_Witness ==
    /\ threads[1].pc = "done"
    /\ threads[1].call =
           [op |-> "validate_food", food_id |-> "pizza",
            disease |-> "celiac"]
    /\ threads[1].ret.score = 40
    /\ threads[2].pc = "check"
    /\ threads[2].call = threads[1].call
    /\ threads[2].i = 2

(***************************************************************************)
(* Properties of get_food_recommendations.                                 *)
(***************************************************************************)
\* the food ids of the four tier lists of a response, one after another
TieredIds ==
    LET all == ret.data.highly_recommended \o ret.data.recommended
               \o ret.data.caution \o ret.data.avoid
    IN  [i \in 1..Len(all) |-> all[i].id]

\* C22: the tier lists get_food_recommendations returns are deduplicated:
\* no food id appears more than once across highly_recommended,
\* recommended, caution and avoid, even when the food has recommendation
\* records for several of the requested conditions.
C22_TiersDeduplicated ==
    (call.op = "get_food_recommendations" /\ ret.success) =>
        \A i, j \in 1..Len(TieredIds) :
            i # j => TieredIds[i] # TieredIds[j]

(***************************************************************************)
(* Properties of the violation list.                                       *)
(***************************************************************************)
\* the opening words of the violation strings of a condition, in the order
\* of its tests in the source
ViolationOrder(disease) ==
    CASE disease = "diabetes" ->
           <<"High sugar", "High carbs", "Low fiber", "High calories">>
      [] disease = "celiac" ->
           <<"Contains gluten", "High sodium", "Low fiber">>
      [] disease = "hypertension" ->
           <<"High sodium", "High calories", "High fat">>
      [] disease = "lactose" -> <<"Contains lactose">>
      [] disease = "gout" -> <<"High purine level", "High sodium">>
      [] disease = "kidney" -> <<"High sodium", "High protein">>
      [] disease = "ibs" -> <<"Low fiber", "High fat">>

StartsWith(text, opening) ==
    /\ Len(text) >= Len(opening)
    /\ SubSeq(text, 1, Len(opening)) = opening

\* the places of the order whose opening words a violation string carries
PlacesOf(disease, text) ==
    {i \in 1..Len(ViolationOrder(disease)) :
         StartsWith(text, ViolationOrder(disease)[i])}

\* C23: the reason of a verdict is the first element of its violations
\* list, and the violations are appended in the fixed order of the
\* condition's tests (diabetes: sugar, carbs, fiber, calories; celiac:
\* gluten, sodium, fiber); when no test fires the list is empty, the score
\* is 100 and the reason is "Meets dietary requirements".
C23_ReasonIsFirstViolation ==
    KnownCall =>
        /\ ret.violations # <<>> => ret.reason = ret.violations[1]
        /\ ret.violations = <<>> =>
               /\ ret.score = 100
               /\ ret.reason = "Meets dietary requirements"
        /\ \A i \in 1..Len(ret.violations) :
               Cardinality(PlacesOf(call.disease, ret.violations[i])) = 1
        /\ \A i, j \in 1..Len(ret.violations) :
               i < j =>
                   \A m \in PlacesOf(call.disease, ret.violations[i]),
                      n \in PlacesOf(call.disease, ret.violations[j]) :
                       m < n

\* a profile that fails all four tests of diabetes: sugar is reported
C23_Witness ==
    /\ KnownCall
    /\ call.food_id = "rice"
    /\ call.disease = "diabetes"
    /\ Len(ret.violations) = 4
    /\ StartsWith(ret.reason, "High sugar")
    /\ StartsWith(ret.violations[4], "High calories")

(***************************************************************************)
(* Properties of the slots of a meal plan.                                 *)
(***************************************************************************)
\* the category lists of the three roles, in the order they are filled
Roles == <<protein_categories, side_categories, drink_categories>>

\* the place in Roles of the role a category belongs to, 0 for none
RoleOf(category) ==
    IF \E r \in 1..Len(Roles) : category \in Range(Roles[r])
    THEN CHOOSE r \in 1..Len(Roles) : category \in Range(Roles[r])
    ELSE 0

\* C24: for each role the food picked for a slot is the highest-scoring
\* eligible food among all the foods of the role's category list: no
\* eligible food of any of the role's categories has a strictly higher
\* safety score than the one picked.
C24_PickIsBestOfRole ==
    (call.op = "generate_meal_plan" /\ ret.success) =>
        \A i \in 1..Len(ret.data) :
            \A k \in 1..Len(ret.data[i].foods) :
                LET picked == ret.data[i].foods[k]
                IN  \A row \in EligibleRows :
                        RoleOf(row.category) = RoleOf(picked.category) =>
                            row.safety_score <= picked.safety_score

\* the calories of the foods of a slot, added up
RECURSIVE CaloriesOf(_)
CaloriesOf(foods) ==
    IF foods = <<>> THEN 0
    ELSE foods[Len(foods)].calories
         + CaloriesOf(SubSeq(foods, 1, Len(foods) - 1))

\* C25: each slot of a plan holds between 0 and 3 foods, at most one per
\* role and in the role order protein, side, drink, and its total_calories
\* is the sum of the calories of its foods (0 for an empty slot).
C25_SlotShape ==
    (call.op = "generate_meal_plan" /\ ret.success) =>
        \A i \in 1..Len(ret.data) :
            LET foods == ret.data[i].foods
            IN  /\ Len(foods) \in 0..3
                /\ \A k \in 1..Len(foods) : RoleOf(foods[k].category) # 0
                /\ \A k, l \in 1..Len(foods) :
                       k < l => RoleOf(foods[k].category)
                                    < RoleOf(foods[l].category)
                /\ ret.data[i].total_calories = CaloriesOf(foods)
                /\ foods = <<>> => ret.data[i].total_calories = 0

\* a slot with a protein, a side and a drink, 400 calories between them
C25_Witness ==
    /\ call.op = "generate_meal_plan"
    /\ ret.success
    /\ Len(ret.data) >= 1
    /\ Len(ret.data[1].foods) = 3
    /\ ret.data[1].foods[1].category = "Protein"
    /\ ret.data[1].foods[2].category = "Vegetarian"
    /\ ret.data[1].foods[3].category = "Drink"
    /\ ret.data[1].total_calories = 400

\* C26: the picks are not deduplicated across the slots of a plan: every
\* slot holds the same sequence of foods and the same total_calories, and
\* the slots differ only in their meal-type label.
C26_SlotsAlike ==
    (call.op = "generate_meal_plan" /\ ret.success) =>
        \A i, j \in 1..Len(ret.data) :
            /\ ret.data[i].foods = ret.data[j].foods
            /\ ret.data[i].total_calories = ret.data[j].total_calories
            /\ i # j => ret.data[i].meal_type # ret.data[j].meal_type

\* three slots, each with the same two foods
C26_Witness ==
    /\ call.op = "generate_meal_plan"
    /\ ret.success
    /\ Len(ret.data) = 3
    /\ Len(ret.data[1].foods) = 2
    /\ ret.data[3].foods = ret.data[1].foods
    /\ ret.data[1].meal_type = "Breakfast"
    /\ ret.data[3].meal_type = "Dinner"

\* the recommendation records of a food for the conditions of the request
RequestedRecords(food_id) ==
    {fr \in food_recommendations :
         fr.food_id = food_id /\ fr.condition_id \in RequestedConditionIds}

\* C27: every food placed in a slot of a meal plan has a safety score at or
\* above the cutoff of 7 and the tier Highly Recommended or Recommended;
\* a food that is in the Caution or Avoid tier, or below the cutoff, for a
\* requested condition is never picked.
C27_OnlyWellRecommended ==
    (call.op = "generate_meal_plan" /\ ret.success) =>
        \A i \in 1..Len(ret.data) :
            \A k \in 1..Len(ret.data[i].foods) :
                LET picked == ret.data[i].foods[k]
                IN  /\ picked.safety_score >= 7
                    /\ \A fr \in RequestedRecords(picked.id) :
                           /\ fr.recommendation_type \in
                                  {"Highly Recommended", "Recommended"}
                           /\ fr.safety_score >= 7

(***************************************************************************)
(* Properties of the thresholds.                                           *)
(***************************************************************************)
\* C28: for every condition other than celiac and every nutrient profile
\* of a known food, validate_food returns a score of at least 50 and never
\* the status avoid; avoid is returned only for celiac, and only for a food
\* that contains gluten and has at least one further violation.
C28_AvoidOnlyForCeliac ==
    KnownCall =>
        /\ call.disease # "celiac" =>
               (ret.score >= 50 /\ ret.status # "avoid")
        /\ ret.status = "avoid" =>
               /\ call.disease = "celiac"
               /\ database[call.food_id].gluten
               /\ Len(ret.violations) >= 2
               /\ ret.violations[1] = "Contains gluten"

\* a profile that fails every test of diabetes still scores 50, caution
C28_Witness ==
    /\ KnownCall
    /\ call.food_id = "rice"
    /\ call.disease = "diabetes"
    /\ Len(ret.violations) = 4
    /\ ret.score = 50
    /\ ret.status = "caution"

\* the numeric tests of a condition: the opening words of the violation
\* and whether the nutrient is exactly on its limit in the rule
LimitTests(food, rl, disease) ==
    CASE disease = "diabetes" ->
           {<<"High sugar", food.sugar_g = rl.max_sugar_g>>,
            <<"High carbs", food.carbs_g = rl.max_carbs_g>>,
            <<"Low fiber", food.fiber_g = 10 * rl.min_fiber_g>>,
            <<"High calories", food.calories = rl.max_calories>>}
      [] disease = "celiac" ->
           {<<"High sodium", food.sodium_mg = rl.max_sodium_mg>>,
            <<"Low fiber", food.fiber_g = 10 * rl.min_fiber_g>>}
      [] disease = "hypertension" ->
           {<<"High sodium", food.sodium_mg = rl.max_sodium_mg>>,
            <<"High calories", food.calories = rl.max_calories>>,
            <<"High fat", food.fat_g = 10 * rl.max_fat_g>>}
      [] disease = "gout" ->
           {<<"High sodium", food.sodium_mg = rl.max_sodium_mg>>}
      [] disease = "kidney" ->
           {<<"High sodium", food.sodium_mg = rl.max_sodium_mg>>,
            <<"High protein", food.protein_g = rl.max_protein_g>>}
      [] disease = "ibs" ->
           {<<"Low fiber", food.fiber_g = 10 * rl.min_fiber_g>>,
            <<"High fat", food.fat_g = 10 * rl.max_fat_g>>}
      [] OTHER -> {}

\* the opening words of the violations whose nutrient is on its limit
OnLimit(food, rl, disease) ==
    {test[1] : test \in {t \in LimitTests(food, rl, disease) : t[2]}}

\* the penalty of a condition when only a value over a maximum or under a
\* minimum of its rule is penalised
StrictPenalty(food, rl, disease) ==
    CASE disease = "diabetes" ->
           Pen(food.sugar_g > rl.max_sugar_g, 15)
           + Pen(food.carbs_g > rl.max_carbs_g, 20)
           + Pen(food.fiber_g < 10 * rl.min_fiber_g, 10)
           + Pen(food.calories > rl.max_calories, 5)
      [] disease = "celiac" ->
           Pen(food.gluten, 50) + Pen(food.sodium_mg > rl.max_sodium_mg, 10)
           + Pen(food.fiber_g < 10 * rl.min_fiber_g, 5)
      [] disease = "hypertension" ->
           Pen(food.sodium_mg > rl.max_sodium_mg, 25)
           + Pen(food.calories > rl.max_calories, 10)
           + Pen(food.fat_g > 10 * rl.max_fat_g, 15)
      [] disease = "lactose" -> Pen(food.lactose, 50)
      [] disease = "gout" ->
           Pen(food.purine_level \in {"high", "very_high"}, 30)
           + Pen(food.sodium_mg > rl.max_sodium_mg, 10)
      [] disease = "kidney" ->
           Pen(food.sodium_mg > rl.max_sodium_mg, 25)
           + Pen(food.protein_g > rl.max_protein_g, 20)
      [] disease = "ibs" ->
           Pen(food.fiber_g < 10 * rl.min_fiber_g, 10)
           + Pen(food.fat_g > 10 * rl.max_fat_g, 20)

\* C29: the threshold comparisons of validate_food are strict: a nutrient
\* value exactly equal to the max_* or the min_* threshold of the condition
\* is no violation and costs no penalty (sodium equal to the gout maximum
\* of 700 adds no sodium violation); only a value over the maximum or
\* under the minimum is penalised.
C29_LimitsAreAllowed ==
    KnownCall =>
        LET food == database[call.food_id]
            rl == rules[call.disease]
        IN  /\ \A opening \in OnLimit(food, rl, call.disease) :
                   \A i \in 1..Len(ret.violations) :
                       ~StartsWith(ret.violations[i], opening)
            /\ ret.score = Max(0, 100 - StrictPenalty(food, rl, call.disease))
            /\ (call.disease = "gout" /\ food.sodium_mg = 700) =>
                   \A i \in 1..Len(ret.violations) :
                       ~StartsWith(ret.violations[i], "High sodium")

\* a profile with all four nutrients of diabetes exactly on their limits
C29_Witness ==
    /\ KnownCall
    /\ call.food_id = "rice"
    /\ call.disease = "diabetes"
    /\ database["rice"].sugar_g = rules["diabetes"].max_sugar_g
    /\ database["rice"].carbs_g = rules["diabetes"].max_carbs_g
    /\ database["rice"].fiber_g = 10 * rules["diabetes"].min_fiber_g
    /\ database["rice"].calories = rules["diabetes"].max_calories
    /\ ret.violations = <<>>
    /\ ret.score = 100
    /\ ret.status = "safe"

(***************************************************************************)
(* Properties of DatabaseOperations.                                       *)
(***************************************************************************)
\* MySQL is configured and usable by the process, yet the instance holds
\* the SQLite connection get_connection fell back to
FellBack ==
    /\ environment.DATABASE_TYPE = "mysql"
    /\ environment.MYSQL_AVAILABLE
    /\ db_ops.connection = "sqlite"

\* C30: in every reachable state of a DatabaseOperations instance is_mysql
\* is true only if the connection held is a MySQL connection: when MySQL
\* is configured but connecting fails and get_connection falls back to
\* SQLite, the queries keep the '?' placeholders of SQLite and
\* execute_update commits the SQLite transaction before it returns True.
C30_FlagMatchesConnection ==
    ~IsRaised(db_ops) =>
        /\ db_ops.is_mysql => db_ops.connection = "mysql"
        /\ FellBack =>
               /\ (call.op \in {"execute_query", "execute_update"}
                   /\ ret.executed # <<>>) => ret.executed = call.query
               /\ (call.op = "execute_update" /\ ret.result) =>
                      session.pending = 0

====
